---- MODULE Spec2Model ----
(***************************************************************************)
(* A model of the SIMPL-2021 compiler: scanner (scanner.c), hash table     *)
(* (hashtable.c), symbol table (symboltable.c), value types (valtypes.h)   *)
(* and the recursive-descent parser / analyser / lowerer (simplc.c).       *)
(*                                                                         *)
(* The parser works on a sequence of tokens (the scanner is modelled on    *)
(* characters separately, under SpecLex, and the symbol table's interface  *)
(* on its own under SpecSym).  `position` is the index of the              *)
(* token the scanner returned last, which stands for its line and column.  *)
(* Every fatal error (leprintf) ends the compilation: it is recorded in    *)
(* `err` and no operation has any effect afterwards.                       *)
(***************************************************************************)
EXTENDS Integers, Sequences, FiniteSets, TLC

VARIABLES
    src,            \* the source file: its tokens for the parser, its
                    \* characters for the scanner
    scanned,        \* how much of src has been read
    token,          \* simplc.c: the lookahead token
    position,       \* error.h: the source position used by diagnostics
    return_type,    \* simplc.c: the return type of the current subroutine
    tabs,           \* the hash tables allocated (ht_init) and not freed
    table,          \* symboltable.c: the active table (an index of tabs)
    saved_table,    \* symboltable.c: the saved global table, 0 for NULL
    curr_offset,    \* symboltable.c: the next local slot
    class_name,     \* codegen: the class name
    cur_sub,        \* codegen: name and properties of the open subroutine
    code,           \* codegen: the instructions of the open subroutine
    label_count,    \* codegen: the last label get_label returned
    subs,           \* codegen: the closed subroutines, in order
    err,            \* the fatal error reported (kind "none" when none)
    ch,             \* scanner.c: the next source character
    column_number,  \* scanner.c: the current column number
    last_read,      \* scanner.c: the static variable of next_char
    tokens,         \* the tokens get_token has returned to its caller
    returned,       \* the value the last symbol table operation returned
    pc              \* where main() is: start, funcdefs, parsed, done, failed
                    \* (SpecLex: scanning, done, failed; SpecSym: global,
                    \* local, the scope that is active)

vars == <<src, scanned, token, position, return_type, tabs, table, saved_table,
          curr_offset, class_name, cur_sub, code, label_count, subs, err, ch,
          column_number, last_read, tokens, returned, pc>>

(* ------------------------------------------------------------------ *)
(* Token types: the order of token_names[] in token.c                  *)
(* ------------------------------------------------------------------ *)
TOK_EOF == 0
TOK_ID == 1
TOK_NUM == 2
TOK_STR == 3
TOK_ARRAY == 4
TOK_BEGIN == 5
TOK_BOOLEAN == 6
TOK_CHILL == 7
TOK_DEFINE == 8
TOK_DO == 9
TOK_ELSE == 10
TOK_ELSIF == 11
TOK_END == 12
TOK_EXIT == 13
TOK_FALSE == 14
TOK_IF == 15
TOK_INTEGER == 16
TOK_NOT == 17
TOK_PROGRAM == 18
TOK_READ == 19
TOK_THEN == 20
TOK_TRUE == 21
TOK_WHILE == 22
TOK_WRITE == 23
TOK_EQ == 24
TOK_GE == 25
TOK_GT == 26
TOK_LE == 27
TOK_LT == 28
TOK_NE == 29
TOK_MINUS == 30
TOK_OR == 31
TOK_PLUS == 32
TOK_AND == 33
TOK_DIV == 34
TOK_MUL == 35
TOK_MOD == 36
TOK_AMPERSAND == 37
TOK_LBRACK == 38
TOK_RBRACK == 39
TOK_COMMA == 40
TOK_GETS == 41
TOK_LPAR == 42
TOK_RPAR == 43
TOK_SEMICOLON == 44
TOK_TO == 45

(* A token: its type and its payload (lexeme for an identifier, value  *)
(* for a number, string for a string literal).                         *)
Tok(type, lexeme, value) == [type |-> type, lexeme |-> lexeme, value |-> value]

STARTS_FACTOR(toktype) ==
    \/ toktype = TOK_ID \/ toktype = TOK_NUM
    \/ toktype = TOK_LPAR \/ toktype = TOK_NOT
    \/ toktype = TOK_TRUE \/ toktype = TOK_FALSE

STARTS_EXPR(toktype) ==
    \/ toktype = TOK_ID \/ toktype = TOK_NUM
    \/ toktype = TOK_LPAR \/ toktype = TOK_NOT
    \/ toktype = TOK_TRUE \/ toktype = TOK_FALSE
    \/ toktype = TOK_MINUS

IS_ADDOP(toktype) == toktype >= TOK_MINUS /\ toktype <= TOK_PLUS

IS_MULOP(toktype) == toktype >= TOK_AND /\ toktype <= TOK_MOD

IS_RELOP(toktype) == toktype >= TOK_EQ /\ toktype <= TOK_NE

IS_TYPE_TOKEN(toktype) == toktype = TOK_BOOLEAN \/ toktype = TOK_INTEGER

IS_STATEMENT(toktype) ==
    \/ toktype = TOK_EXIT \/ toktype = TOK_IF
    \/ toktype = TOK_ID \/ toktype = TOK_READ
    \/ toktype = TOK_WHILE \/ toktype = TOK_WRITE

(* ------------------------------------------------------------------ *)
(* Value types (valtypes.h): a 4-bit set                               *)
(* ------------------------------------------------------------------ *)
TYPE_NONE == 0
TYPE_ARRAY == 1
TYPE_BOOLEAN == 2
TYPE_INTEGER == 4
TYPE_CALLABLE == 8

ValTypeBits == {1, 2, 4, 8}

BitsOf(t) == {b \in ValTypeBits : (t \div b) % 2 = 1}

RECURSIVE SumBits(_)
SumBits(S) == IF S = {} THEN 0
              ELSE LET b == CHOOSE x \in S : TRUE IN b + SumBits(S \ {b})

BitAnd(t, u) == SumBits(BitsOf(t) \cap BitsOf(u))
BitOr(t, u)  == SumBits(BitsOf(t) \cup BitsOf(u))
BitXor(t, u) == SumBits((BitsOf(t) \ BitsOf(u)) \cup (BitsOf(u) \ BitsOf(t)))

IS_ARRAY_TYPE(type)    == BitAnd(type, TYPE_ARRAY) # 0
IS_BOOLEAN_TYPE(type)  == BitAnd(type, TYPE_BOOLEAN) # 0
IS_CALLABLE_TYPE(type) == BitAnd(type, TYPE_CALLABLE) # 0
IS_INTEGER_TYPE(type)  == BitAnd(type, TYPE_INTEGER) # 0
IS_ARRAY(type)         == IS_ARRAY_TYPE(type) /\ ~IS_CALLABLE_TYPE(type)
IS_PROCEDURE(type)     == BitXor(type, TYPE_CALLABLE) = 0
IS_FUNCTION(type)      == IS_CALLABLE_TYPE(type) /\ ~IS_PROCEDURE(type)
IS_VARIABLE(type)      == type >= 2 /\ type <= 5

(* SET_RETURN_TYPE as it would be if it left the callable flag in     *)
(* place.                                                              *)
KEEP_RETURN_TYPE(type) == type

(* SET_RETURN_TYPE: type &= ~TYPE_CALLABLE *)
SET_RETURN_TYPE(type) == BitAnd(type, 7)

(* Identifier properties (IDprop, made by make_idprop). *)
make_idprop(type, offset, nparams, params) ==
    [type |-> type, offset |-> offset, nparams |-> nparams, params |-> params]

(* The value of a function of one argument: With([x \in {e} |-> body]) *)
(* is body with e for x, e being evaluated once.                       *)
With(f) == f[CHOOSE x \in DOMAIN f : TRUE]

(* ------------------------------------------------------------------ *)
(* Hash table (hashtable.c) with the symbol table's hash function      *)
(* ------------------------------------------------------------------ *)
INITIAL_DELTA_INDEX == 4

delta == <<0, 0, 1, 1, 3, 1, 3, 1, 5, 3, 3, 9, 3, 1, 3, 19, 15,
           1, 5, 1, 3, 9, 3, 15, 3, 39, 5, 39, 57, 3, 35, 1>>

(* delta[] is indexed from 0 in C. *)
Delta(i) == delta[i + 1]

(* The characters of the identifiers the model uses, as ASCII codes    *)
(* (what strlen/keystr[i] read).                                       *)
KeyChars(key) ==
    CASE key = "a" -> <<97>>
      [] key = "b" -> <<98>>
      [] key = "c" -> <<99>>
      [] key = "f" -> <<102>>
      [] key = "g" -> <<103>>
      [] key = "h" -> <<104>>
      [] key = "i" -> <<105>>
      [] key = "p" -> <<112>>
      [] key = "q" -> <<113>>
      [] key = "v" -> <<118>>
      [] key = "w" -> <<119>>
      [] key = "x" -> <<120>>
      [] key = "y" -> <<121>>
      [] key = "z" -> <<122>>
      [] key = "P" -> <<80>>
      [] key = "a2" -> <<97, 50>>
      [] key = "b2" -> <<98, 50>>
      [] key = "c2" -> <<99, 50>>
      [] key = "x2" -> <<120, 50>>

(* The 32-bit unsigned hash is kept as two 16-bit halves <<hi, lo>>:   *)
(* hash = (hash << 5) | (hash >> 27); hash += keystr[i];               *)
Half == 65536

RECURSIVE shift_hash_from(_, _, _, _)
shift_hash_from(chars, i, hi, lo) ==
    IF i > Len(chars) THEN <<hi, lo>>
    ELSE LET rhi == (hi * 32 + (lo \div 2048)) % Half
             rlo == ((lo * 32) % Half) + (hi \div 2048)
             sum == rlo + chars[i]
         IN shift_hash_from(chars, i + 1, (rhi + (sum \div Half)) % Half,
                            sum % Half)

(* The bucket of a key, 0 .. size-1: hash % size. *)
shift_hash(key, size) ==
    LET h == shift_hash_from(KeyChars(key), 1, 0, 0)
    IN ((h[1] % size) * (Half % size) + (h[2] % size)) % size

(* A table: buckets[k+1] is the chain of bucket k, newest entry first. *)
ht_init ==
    LET size == 2 ^ INITIAL_DELTA_INDEX - Delta(INITIAL_DELTA_INDEX)
    IN [idx |-> INITIAL_DELTA_INDEX, size |-> size, num_entries |-> 0,
        buckets |-> [k \in 1..size |-> <<>>]]

(* getsize as it would be if the new size were twice the old one.      *)
getsize_doubled(ht) == ht.size * 2

getsize(ht) == (ht.size + Delta(ht.idx)) * 2 - Delta(ht.idx + 1)

RECURSIVE rehash_chain(_, _, _, _)
rehash_chain(chain, j, new_buckets, new_size) ==
    IF j > Len(chain) THEN new_buckets
    ELSE LET k == shift_hash(chain[j].key, new_size)
         IN rehash_chain(chain, j + 1,
                [new_buckets EXCEPT ![k + 1] = <<chain[j]>> \o @], new_size)

RECURSIVE rehash_from(_, _, _, _)
rehash_from(ht, i, new_buckets, new_size) ==
    IF i > ht.size THEN new_buckets
    ELSE rehash_from(ht, i + 1,
            rehash_chain(ht.buckets[i], 1, new_buckets, new_size), new_size)

(* rehash as it would be if it allocated the new table and moved no    *)
(* entry into it.                                                      *)
rehash_empty(ht) ==
    [ht EXCEPT !.idx = @ + 1, !.size = getsize(ht),
               !.buckets = [k \in 1..getsize(ht) |-> <<>>]]

rehash(ht) ==
    LET new_size == getsize(ht)
    IN [ht EXCEPT !.idx = @ + 1, !.size = new_size,
                  !.buckets = rehash_from(ht, 1,
                                  [k \in 1..new_size |-> <<>>], new_size)]

ChainHas(chain, key) == \E j \in 1..Len(chain) : chain[j].key = key

(* ht_search: TRUE and the value of the first entry of the chain with  *)
(* the key, else FALSE.                                                *)
ChainValue(chain, key) ==
    chain[CHOOSE n \in 1..Len(chain) :
            /\ chain[n].key = key
            /\ \A m \in 1..(n - 1) : chain[m].key # key].value

ht_search(ht, key) ==
    With([chain \in {ht.buckets[shift_hash(key, ht.size) + 1]} |->
        IF ChainHas(chain, key)
        THEN [found |-> TRUE, value |-> ChainValue(chain, key)]
        ELSE [found |-> FALSE, value |-> make_idprop(TYPE_NONE, 0, 0, <<>>)]])

(* ht_insert: the return code and the table afterwards.  The load      *)
(* factor test num_entries >= 0.75f * size is 4 * num_entries >= 3 *   *)
(* size.                                                               *)
ht_insert(ht, key, value) ==
    IF ChainHas(ht.buckets[shift_hash(key, ht.size) + 1], key)
    THEN [rc |-> "HASH_TABLE_KEY_VALUE_PAIR_EXISTS", ht |-> ht]
    ELSE With([h1 \in {[ht EXCEPT !.num_entries = @ + 1]} |->
         With([h2 \in {IF 4 * h1.num_entries >= 3 * h1.size
                       THEN rehash(h1) ELSE h1} |->
            IF 4 * h1.num_entries >= 3 * h1.size /\ h2.num_entries > h2.size
            THEN [rc |-> "HASH_TABLE_NO_SPACE_FOR_NODE", ht |-> h2]
            ELSE [rc |-> "EXIT_SUCCESS",
                  ht |-> [h2 EXCEPT !.buckets[shift_hash(key, h2.size) + 1] =
                            <<[key |-> key, value |-> value]>> \o @]]])])

(* ------------------------------------------------------------------ *)
(* The compiler's state as one record, so that the parser's routines   *)
(* can be written as operators from state to state.                    *)
(*   src, scanned : the source's tokens and how many the scanner read  *)
(*   token        : the lookahead token (simplc.c)                     *)
(*   position     : the source position (error.h), a token index       *)
(*   return_type  : the return type of the current subroutine          *)
(*   tabs, table, saved_table, curr_offset : the symbol table; tabs is *)
(*       the heap of hash tables, table and saved_table point into it  *)
(*       (saved_table = 0 is NULL)                                     *)
(*   class_name, cur_sub, code, label_count, subs : the emitter        *)
(*   t0           : the type a parse routine wrote through its ValType *)
(*                  pointer argument                                   *)
(*   err          : the fatal error reported, if any                   *)
(* ------------------------------------------------------------------ *)
NoProp == make_idprop(TYPE_NONE, 0, 0, <<>>)

NoErr == [kind |-> "none", arg |-> "", expected |-> 0, found |-> 0, pos |-> 0]

Ok(s) == s.err.kind = "none"

EOFToken == Tok(TOK_EOF, "", 0)

token_names == <<"end-of-file", "identifier", "number", "string", "'array'",
    "'begin'", "'boolean'", "'chill'", "'define'", "'do'", "'else'", "'elsif'",
    "'end'", "'exit'", "'false'", "'if'", "'integer'", "'not'", "'program'",
    "'read'", "'then'", "'true'", "'while'", "'write'", "'='", "'>='", "'>'",
    "'<='", "'<'", "'#'", "'-'", "'or'", "'+'", "'and'", "'/'", "'*'", "'mod'",
    "'&'", "'['", "']'", "','", "'<-'", "'('", "')'", "';'", "'->'">>

get_token_string(type) == token_names[type + 1]

(* get_token, as the parser sees it: the next token of the source, or  *)
(* end-of-file; position becomes the place of that token.              *)
get_token(s) ==
    IF ~Ok(s) THEN s
    ELSE LET n == IF s.scanned <= Len(s.src) THEN s.scanned + 1 ELSE s.scanned
         IN [s EXCEPT !.scanned = n, !.position = n,
                      !.token = IF n <= Len(s.src) THEN s.src[n] ELSE EOFToken]

(* leprintf: report at `position` and end the compilation. *)
leprintf(s, kind, arg, expected, found) ==
    IF ~Ok(s) THEN s
    ELSE [s EXCEPT !.err = [kind |-> kind, arg |-> arg, expected |-> expected,
                            found |-> found, pos |-> s.position]]

abort_c(s, kind, arg) == leprintf(s, kind, arg, 0, 0)

(* position = pos; abort_c(kind, arg); *)
abort_at(s, pos, kind, arg) ==
    IF ~Ok(s) THEN s ELSE abort_c([s EXCEPT !.position = pos], kind, arg)

check_types(s, found, expected, pos, ctx) ==
    IF ~Ok(s) \/ found = expected THEN s
    ELSE leprintf([s EXCEPT !.position = pos], "incompatible types", ctx,
                  expected, found)

expect(s, type) ==
    IF ~Ok(s) THEN s
    ELSE IF s.token.type = type THEN get_token(s)
    ELSE abort_c(s, "ERR_EXPECT", get_token_string(type))

(* expect_id: the caller reads the identifier off s.token.lexeme       *)
(* before the call (strdup(token.lexeme)).                             *)
expect_id(s) ==
    IF ~Ok(s) THEN s
    ELSE IF s.token.type = TOK_ID THEN get_token(s)
    ELSE abort_c(s, "ERR_EXPECT", get_token_string(TOK_ID))

(* ------------------------------------------------------------------ *)
(* Symbol table (symboltable.c)                                        *)
(* ------------------------------------------------------------------ *)
init_symbol_table(s) ==
    [s EXCEPT !.saved_table = 0, !.tabs = <<ht_init>>, !.table = 1,
              !.curr_offset = 1]

(* find_name as it would be if a hit in the global scope were taken    *)
(* whatever its type.                                                  *)
find_name_any_global(s, id) ==
    With([r1 \in {ht_search(s.tabs[s.table], id)} |->
        IF ~r1.found /\ s.saved_table # 0
        THEN With([r2 \in {ht_search(s.tabs[s.saved_table], id)} |->
                [found |-> r2.found, prop |-> r2.value]])
        ELSE [found |-> r1.found, prop |-> r1.value]])

find_name(s, id) ==
    With([r1 \in {ht_search(s.tabs[s.table], id)} |->
        IF ~r1.found /\ s.saved_table # 0
        THEN With([r2 \in {ht_search(s.tabs[s.saved_table], id)} |->
                IF r2.found /\ ~IS_CALLABLE_TYPE(r2.value.type)
                THEN [found |-> FALSE, prop |-> r2.value]
                ELSE [found |-> r2.found, prop |-> r2.value]])
        ELSE [found |-> r1.found, prop |-> r1.value]])

(* open_subroutine as it would be if it did not enter the subroutine's *)
(* name into the global table before opening the local one.            *)
open_subroutine_anonymous(s, id, prop) ==
    [ok |-> TRUE,
     s |-> [s EXCEPT !.saved_table = s.table,
                     !.tabs = Append(s.tabs, ht_init),
                     !.table = Len(s.tabs) + 1,
                     !.curr_offset = 1]]

open_subroutine(s, id, prop) ==
    With([r \in {ht_insert(s.tabs[s.table], id, prop)} |->
        IF r.rc # "EXIT_SUCCESS"
        THEN [ok |-> FALSE, s |-> [s EXCEPT !.tabs[s.table] = r.ht]]
        ELSE [ok |-> TRUE,
              s |-> [s EXCEPT !.saved_table = s.table,
                              !.tabs = Append([s.tabs EXCEPT ![s.table] = r.ht],
                                              ht_init),
                              !.table = Len(s.tabs) + 1,
                              !.curr_offset = 1]]])

(* close_subroutine as it would be if it left the subroutine's table   *)
(* active.                                                             *)
leave_subroutine_open(s) == s

(* ht_free(table) releases the subroutine's table, which is the last   *)
(* one allocated.                                                      *)
close_subroutine(s) ==
    [s EXCEPT !.tabs = IF s.table = Len(s.tabs) /\ s.table # s.saved_table
                       THEN SubSeq(s.tabs, 1, Len(s.tabs) - 1) ELSE @,
              !.table = s.saved_table]

insert_name(s, id, prop) ==
    IF find_name(s, id).found THEN [ok |-> FALSE, s |-> s]
    ELSE With([r \in {ht_insert(s.tabs[s.table], id,
                        IF IS_VARIABLE(prop.type)
                        THEN [prop EXCEPT !.offset = s.curr_offset]
                        ELSE prop)} |->
            IF r.rc # "EXIT_SUCCESS"
            THEN [ok |-> FALSE, s |-> [s EXCEPT !.tabs[s.table] = r.ht]]
            ELSE [ok |-> TRUE,
                  s |-> [s EXCEPT !.tabs[s.table] = r.ht,
                                  !.curr_offset = IF IS_VARIABLE(prop.type)
                                                  THEN @ + 1 ELSE @]]])

(* The number of variables of the scope, not the width of its locals. *)
get_variables_count(s) == s.curr_offset - 1

get_variables_width(s) == s.curr_offset

(* ------------------------------------------------------------------ *)
(* Code emitter (codegen.h): an instruction buffer for the open        *)
(* subroutine, a label counter, and the list of closed subroutines.    *)
(* ------------------------------------------------------------------ *)
Ins(op, arg, name) == [op |-> op, arg |-> arg, name |-> name]

emit(s, ins) == IF ~Ok(s) THEN s ELSE [s EXCEPT !.code = Append(@, ins)]

gen_1(s, op) == emit(s, Ins(op, 0, ""))
gen_2(s, op, operand) == emit(s, Ins(op, operand, ""))
gen_2_label(s, op, label) == emit(s, Ins(op, label, ""))
gen_label(s, label) == emit(s, Ins("LABEL", label, ""))
gen_call(s, id, prop) == emit(s, Ins("CALL", prop.nparams, id))
gen_print(s, type) == emit(s, Ins("PRINT", type, ""))
gen_print_string(s, str) == emit(s, Ins("PRINT_STRING", 0, str))
gen_read(s, type) == emit(s, Ins("READ", type, ""))
gen_newarray(s) == emit(s, Ins("NEWARRAY", 0, ""))

(* get_label: the label is s.label_count after the call. *)
get_label(s) == IF ~Ok(s) THEN s ELSE [s EXCEPT !.label_count = @ + 1]

(* gen_cmp: a two-branch sequence that leaves 0 or 1 on the stack. *)
gen_cmp(s, op) ==
    gen_label(gen_2(gen_label(gen_2_label(gen_2(gen_2_label(
        get_label(get_label(s)), op, s.label_count + 1), "LDC", 0), "GOTO",
        s.label_count + 2), s.label_count + 1), "LDC", 1), s.label_count + 2)

set_class_name(s, name) == IF ~Ok(s) THEN s ELSE [s EXCEPT !.class_name = name]

init_subroutine_codegen(s, name, prop) ==
    IF ~Ok(s) THEN s
    ELSE [s EXCEPT !.cur_sub = [name |-> name, prop |-> prop], !.code = <<>>]

close_subroutine_codegen(s, width) ==
    IF ~Ok(s) THEN s
    ELSE [s EXCEPT !.subs = Append(@, [name |-> s.cur_sub.name,
                                       prop |-> s.cur_sub.prop,
                                       code |-> s.code, width |-> width]),
                   !.code = <<>>]

SetT0(s, type) == IF ~Ok(s) THEN s ELSE [s EXCEPT !.t0 = type]

(* ------------------------------------------------------------------ *)
(* Parser routines (simplc.c): expressions                             *)
(* ------------------------------------------------------------------ *)
(* The call of a parser routine that takes the parser's state only,   *)
(* by its name in the prototypes of simplc.c.                          *)
RECURSIVE Call(_, _)

RECURSIVE parse_expr(_), parse_simple(_), parse_simple_loop(_, _)
RECURSIVE parse_term(_), parse_term_loop(_, _), parse_factor(_)
RECURSIVE parse_index(_, _), parse_arglist(_, _, _), parse_arglist_loop(_, _, _, _)

(* <index> = "[" <simple> "]" . *)
parse_index(s, id) ==
    IF ~Ok(s) THEN s
    ELSE With([s1 \in {expect(s, TOK_LBRACK)} |->
         With([s3 \in {Call("parse_simple",
                        IF Ok(s1) /\ s1.token.type = TOK_NUM
                        THEN gen_2(s1, "ALOAD", find_name(s, id).prop.offset)
                        ELSE s1)} |->
            expect(check_types(s3, s3.t0, TYPE_INTEGER, s1.position,
                               "for array index"), TOK_RBRACK)])])

(* One argument of parse_arglist: parse_expr, and check_types against  *)
(* params[i], at the argument's position.                              *)
parse_argument(s, prop, i) ==
    With([s2 \in {Call("parse_expr", s)} |->
        check_types(s2, s2.t0, prop.params[i], s.position,
                    "for parameter of call")])

(* The while loop of parse_arglist; i arguments were parsed so far. *)
parse_arglist_loop(s, id, prop, i) ==
    IF ~Ok(s) THEN [s |-> s, i |-> i]
    ELSE IF s.token.type # TOK_COMMA THEN [s |-> s, i |-> i]
    ELSE IF i >= prop.nparams
         THEN [s |-> abort_c(s, "ERR_TOO_MANY_ARGUMENTS", id), i |-> i]
    ELSE parse_arglist_loop(parse_argument(get_token(s), prop, i + 1), id,
                            prop, i + 1)

(* parse_arglist after find_name returned f. *)
parse_arglist_of(s, id, idpos, f) ==
    IF ~f.found THEN abort_c(s, "ERR_UNKNOWN_IDENTIFIER", id)
    ELSE With([s1 \in {expect(s, TOK_LPAR)} |->
        IF Ok(s1) /\ STARTS_EXPR(s1.token.type)
        THEN IF f.prop.nparams = 0
             THEN abort_at(s1, idpos, "ERR_TAKES_NO_ARGUMENTS", id)
             ELSE With([r \in {parse_arglist_loop(
                                    parse_argument(s1, f.prop, 1), id,
                                    f.prop, 1)} |->
                    expect(IF Ok(r.s) /\ r.i < f.prop.nparams
                           THEN abort_c(r.s, "ERR_TOO_FEW_ARGUMENTS", id)
                           ELSE r.s, TOK_RPAR)])
        ELSE expect(s1, TOK_RPAR)])

(* <arglist> = "(" [<expr> {"," <expr>}] ")" . *)
parse_arglist(s, id, idpos) ==
    IF ~Ok(s) THEN s ELSE parse_arglist_of(s, id, idpos, find_name(s, id))

(* The TOK_ID case of parse_factor after expect_id and find_name:      *)
(* vname was found with properties prop, or not found.                 *)
parse_factor_id(s1, pos, vname, found, prop) ==
    IF ~found
    THEN abort_at(s1, pos, "ERR_UNKNOWN_IDENTIFIER", vname)
    ELSE IF s1.token.type = TOK_LBRACK
    THEN IF ~IS_ARRAY(prop.type)
         THEN abort_at(s1, pos, "ERR_NOT_AN_ARRAY", vname)
         ELSE SetT0(gen_1(parse_index(s1, vname), "IALOAD"),
                    BitAnd(prop.type, 6))
    ELSE IF s1.token.type = TOK_LPAR
    THEN IF ~IS_FUNCTION(prop.type)
         THEN abort_at(s1, pos, "ERR_NOT_A_FUNCTION", vname)
         ELSE SetT0(gen_call(parse_arglist(s1, vname, pos), vname, prop),
                    BitXor(prop.type, TYPE_CALLABLE))
    ELSE IF IS_FUNCTION(prop.type)
    THEN abort_at(s1, pos, "ERR_MISSING_FUNCTION_ARGUMENT_LIST", vname)
    ELSE SetT0(IF IS_ARRAY_TYPE(prop.type)
               THEN gen_2(s1, "ALOAD", prop.offset)
               ELSE gen_2(s1, "ILOAD", prop.offset), prop.type)

(* <factor> = <id> [<index> | <arglist>] | <num> | "not" <factor> |    *)
(*            "true" | "false" | "(" <expr> ")" .                      *)
parse_factor(s) ==
    IF ~Ok(s) THEN s
    ELSE CASE s.token.type = TOK_ID ->
            With([s1 \in {expect_id(s)} |->
            With([f \in {find_name(s1, s.token.lexeme)} |->
                parse_factor_id(s1, s.position, s.token.lexeme, f.found,
                                f.prop)])])
           [] s.token.type = TOK_NUM ->
                SetT0(get_token(gen_2(s, "LDC", s.token.value)), TYPE_INTEGER)
           [] s.token.type = TOK_NOT ->
                With([s1 \in {get_token(s)} |->
                With([s2 \in {Call("parse_factor", s1)} |->
                    gen_1(gen_2(check_types(s2, s2.t0, TYPE_BOOLEAN,
                                            s1.position, "for 'not'"),
                                "LDC", 1), "IXOR")])])
           [] s.token.type = TOK_TRUE ->
                SetT0(get_token(gen_2(s, "LDC", 1)), TYPE_BOOLEAN)
           [] s.token.type = TOK_FALSE ->
                SetT0(get_token(gen_2(s, "LDC", 0)), TYPE_BOOLEAN)
           [] s.token.type = TOK_LPAR ->
                expect(Call("parse_expr", get_token(s)), TOK_RPAR)
           [] OTHER -> abort_c(s, "ERR_FACTOR_EXPECTED", "")

(* The body of the while loop of parse_term as it would be if it       *)
(* emitted nothing for the mulop.                                      *)
parse_term_operands_only(s1, op, pos, ty0) == s1

(* The body of the while loop of parse_term after its factor was      *)
(* parsed into s1: op is the mulop, at pos, and ty0 is *t0.            *)
parse_term_step(s1, op, pos, ty0) ==
    IF ~Ok(s1) THEN s1
    ELSE IF IS_ARRAY(s1.t0)
    THEN abort_at(s1, pos, "ERR_ILLEGAL_ARRAY_OPERATION", get_token_string(op))
    ELSE IF op = TOK_AND
    THEN gen_1(check_types(check_types(s1, ty0, TYPE_BOOLEAN, pos,
                    "for operator"), s1.t0, TYPE_BOOLEAN, pos, "for operator"),
               "IAND")
    ELSE With([s2 \in {check_types(check_types(s1, ty0, TYPE_INTEGER, pos,
                    "for operator"), s1.t0, TYPE_INTEGER, pos, "for operator")} |->
            CASE op = TOK_MUL -> gen_1(s2, "IMUL")
              [] op = TOK_DIV -> gen_1(s2, "IDIV")
              [] op = TOK_MOD -> gen_1(s2, "IREM")
              [] OTHER -> s2])

(* The while loop of parse_term; ty0 is *t0, the first factor's type. *)
parse_term_loop(s, ty0) ==
    IF ~Ok(s) THEN s
    ELSE IF ~IS_MULOP(s.token.type) THEN SetT0(s, ty0)
    ELSE parse_term_loop(
            parse_term_step(Call("parse_factor", get_token(s)), s.token.type,
                            s.position, ty0), ty0)

(* <term> = <factor> {<mulop> <factor>} . *)
parse_term(s) ==
    IF ~Ok(s) THEN s
    ELSE With([s1 \in {Call("parse_factor", s)} |->
            IF ~Ok(s1) THEN s1
            ELSE IF IS_MULOP(s1.token.type) /\ IS_ARRAY(s1.t0)
            THEN abort_c(s1, "ERR_ILLEGAL_ARRAY_OPERATION",
                         get_token_string(s1.token.type))
            ELSE parse_term_loop(s1, s1.t0)])

(* The body of the while loop of parse_simple after its term was      *)
(* parsed into s1: op is the addop, at pos, and ty0 is *t0.            *)
parse_simple_step(s1, op, pos, ty0) ==
    IF ~Ok(s1) THEN s1
    ELSE IF IS_ARRAY(s1.t0)
    THEN abort_at(s1, pos, "ERR_ILLEGAL_ARRAY_OPERATION", get_token_string(op))
    ELSE IF op = TOK_OR
    THEN gen_1(check_types(check_types(s1, ty0, TYPE_BOOLEAN, pos,
                    "for operator"), s1.t0, TYPE_BOOLEAN, pos, "for operator"),
               "IOR")
    ELSE With([s2 \in {check_types(check_types(s1, ty0, TYPE_INTEGER, pos,
                    "for operator"), s1.t0, TYPE_INTEGER, pos, "for operator")} |->
            CASE op = TOK_PLUS -> gen_1(s2, "IADD")
              [] op = TOK_MINUS -> gen_1(s2, "ISUB")
              [] OTHER -> s2])

(* The while loop of parse_simple; ty0 is *t0, the first term's type. *)
parse_simple_loop(s, ty0) ==
    IF ~Ok(s) THEN s
    ELSE IF ~IS_ADDOP(s.token.type) THEN SetT0(s, ty0)
    ELSE parse_simple_loop(
            parse_simple_step(Call("parse_term", get_token(s)), s.token.type,
                              s.position, ty0), ty0)

(* The "-" branch of parse_simple, the term parsed and INEG emitted    *)
(* into s2: pos is the place of "-", posterm the place of the term.    *)
parse_simple_minus(s2, pos, posterm) ==
    IF ~Ok(s2) THEN s2
    ELSE IF IS_ARRAY(s2.t0)
    THEN abort_at(s2, pos, "ERR_ILLEGAL_ARRAY_OPERATION", "unary minus")
    ELSE check_types(s2, s2.t0, TYPE_INTEGER, posterm, "for unary minus")

(* <simple> = ["-"] <term> {<addop> <term>} . *)
parse_simple(s) ==
    IF ~Ok(s) THEN s
    ELSE IF s.token.type = TOK_MINUS
    THEN With([s1 \in {get_token(s)} |->
            parse_simple_minus(gen_1(Call("parse_term", s1), "INEG"),
                               s.position, s1.position)])
    ELSE With([s1 \in {Call("parse_term", s)} |->
            IF ~Ok(s1) THEN s1
            ELSE IF IS_ADDOP(s1.token.type) /\ IS_ARRAY(s1.t0)
            THEN abort_c(s1, "ERR_ILLEGAL_ARRAY_OPERATION",
                         get_token_string(s1.token.type))
            ELSE parse_simple_loop(s1, s1.t0)])

RelCmp(op) ==
    CASE op = TOK_EQ -> "IF_ICMPEQ"
      [] op = TOK_NE -> "IF_ICMPNE"
      [] op = TOK_GE -> "IF_ICMPGE"
      [] op = TOK_GT -> "IF_ICMPGT"
      [] op = TOK_LE -> "IF_ICMPLE"
      [] op = TOK_LT -> "IF_ICMPLT"

(* The relop branch of parse_expr after the right operand was parsed   *)
(* into s2: op at pos, t1 the type of the left operand.                *)
parse_expr_relop(s2, op, pos, t1) ==
    IF ~Ok(s2) THEN s2
    ELSE IF IS_ARRAY(s2.t0)
    THEN abort_at(s2, pos, "ERR_ILLEGAL_ARRAY_OPERATION", get_token_string(op))
    ELSE IF op = TOK_EQ \/ op = TOK_NE
    THEN SetT0(gen_cmp(check_types(s2, s2.t0, t1, pos, "for operator"),
                       RelCmp(op)), TYPE_BOOLEAN)
    ELSE SetT0(gen_cmp(check_types(check_types(s2, t1, TYPE_INTEGER, pos,
                            "for operator"), s2.t0, TYPE_INTEGER, pos,
                            "for operator"), RelCmp(op)), TYPE_BOOLEAN)

(* <expr> = <simple> [<relop> <simple>] . *)
parse_expr(s) ==
    IF ~Ok(s) THEN s
    ELSE With([s1 \in {Call("parse_simple", s)} |->
            IF ~Ok(s1) THEN s1
            ELSE IF ~IS_RELOP(s1.token.type) THEN SetT0(s1, s1.t0)
            ELSE IF IS_ARRAY(s1.t0)
            THEN abort_c(s1, "ERR_ILLEGAL_ARRAY_OPERATION",
                         get_token_string(s1.token.type))
            ELSE parse_expr_relop(Call("parse_simple", get_token(s1)),
                                  s1.token.type, s1.position, s1.t0)])

(* ------------------------------------------------------------------ *)
(* Parser routines (simplc.c): statements                              *)
(* ------------------------------------------------------------------ *)
RECURSIVE parse_statements(_), parse_statements_loop(_), parse_statement(_)
RECURSIVE parse_if(_), parse_if_loop(_, _, _), parse_while(_)

(* parse_exit after expect(TOK_EXIT) gave s1; pos is the place of      *)
(* "exit".                                                             *)
parse_exit_operand(s1, pos) ==
    IF ~Ok(s1) THEN s1
    ELSE IF STARTS_EXPR(s1.token.type)
    THEN IF IS_PROCEDURE(s1.return_type)
         THEN abort_c(s1, "ERR_EXIT_EXPRESSION_NOT_ALLOWED_FOR_PROCEDURE", "")
         ELSE IF IS_FUNCTION(s1.return_type)
         THEN With([s3 \in {gen_1(Call("parse_expr", s1),
                                  IF IS_ARRAY_TYPE(s1.return_type)
                                  THEN "ARETURN" ELSE "IRETURN")} |->
                check_types(s3, s3.t0, SET_RETURN_TYPE(s1.return_type),
                            s1.position, "for 'exit' statement")])
         ELSE s1
    ELSE IF IS_FUNCTION(s1.return_type)
    THEN abort_at(s1, pos, "ERR_MISSING_EXIT_EXPRESSION_FOR_FUNCTION", "")
    ELSE gen_1(s1, "RETURN")

(* <exit> = "exit" [<expr>] . *)
parse_exit(s) ==
    IF ~Ok(s) THEN s ELSE parse_exit_operand(expect(s, TOK_EXIT), s.position)

(* A guard and its arm: parse_expr at s1, the branch IFEQ label,       *)
(* check_types for a boolean, the token after the guard (then or do)   *)
(* and parse_statements.                                               *)
parse_guarded(s1, label, ctx, after) ==
    With([s3 \in {gen_2_label(Call("parse_expr", s1), "IFEQ", label)} |->
        Call("parse_statements",
             expect(check_types(s3, s3.t0, TYPE_BOOLEAN, s1.position, ctx),
                    after))])

(* The elsif loop of parse_if. *)
parse_if_loop(s, l2, l3) ==
    IF ~Ok(s) THEN s
    ELSE IF s.token.type # TOK_ELSIF THEN s
    ELSE parse_if_loop(
            gen_2_label(parse_guarded(get_token(gen_label(s, l2)), l2,
                                      "for 'elsif' guard", TOK_THEN),
                        "GOTO", l3), l2, l3)

(* The else part of parse_if and its end, after the elsif loop. *)
parse_if_else(s7, l3) ==
    expect(gen_label(IF Ok(s7) /\ s7.token.type = TOK_ELSE
                     THEN Call("parse_statements", get_token(s7)) ELSE s7,
                     l3), TOK_END)

(* parse_if once its labels l1, l2, l3 are allocated. *)
parse_if_labelled(s, l1, l2, l3) ==
    parse_if_else(
        parse_if_loop(
            gen_label(gen_2_label(parse_guarded(expect(s, TOK_IF), l1,
                                                "for 'if' guard", TOK_THEN),
                                  "GOTO", l3), l1), l2, l3), l3)

(* <if> = "if" <expr> "then" <statements>                              *)
(*        {"elsif" <expr> "then" <statements>}                         *)
(*        ["else" <statements>] "end" .                                *)
parse_if(s) ==
    IF ~Ok(s) THEN s
    ELSE parse_if_labelled(get_label(get_label(get_label(s))),
                           s.label_count + 1, s.label_count + 2,
                           s.label_count + 3)

(* parse_while once its labels l1, l2 are allocated. *)
parse_while_labelled(s, l1, l2) ==
    gen_label(
        gen_2_label(
            expect(parse_guarded(gen_label(expect(s, TOK_WHILE), l1), l2,
                                 "for 'while' guard", TOK_DO), TOK_END),
            "GOTO", l1), l2)

(* <while> = "while" <expr> "do" <statements> "end" . *)
parse_while(s) ==
    IF ~Ok(s) THEN s
    ELSE parse_while_labelled(get_label(get_label(s)), s.label_count + 1,
                              s.label_count + 2)

(* The checks of parse_name on the type t1 of the assigned expression. *)
parse_name_check(s1, id, idpos, pos, proptype, is_array, is_indexed) ==
    IF is_array
    THEN check_types(s1, s1.t0, proptype, pos, "for assignment")
    ELSE IF IS_ARRAY(s1.t0)
    THEN IF is_indexed
         THEN check_types(s1, s1.t0, proptype, pos,
                          "for allocation to indexed array")
         ELSE abort_at(s1, idpos, "ERR_NOT_AN_ARRAY", id)
    ELSE check_types(s1, s1.t0, proptype, pos, "for assignment")

(* The stores of parse_name after the checks. *)
parse_name_store(s2, prop, is_array, is_indexed) ==
    IF is_array THEN gen_2(s2, "ASTORE", prop.offset)
    ELSE IF is_indexed THEN gen_1(s2, "IASTORE")
    ELSE gen_2(s2, "ISTORE", prop.offset)

(* The part of parse_name after "<-" when an expression follows, the   *)
(* expression parsed into s1; pos is its place.                        *)
parse_name_expr(s1, id, idpos, pos, prop, proptype, is_array, is_indexed) ==
    IF ~Ok(s1) THEN s1
    ELSE IF ~IS_VARIABLE(proptype)
    THEN abort_at(s1, idpos, "ERR_NOT_A_VARIABLE", id)
    ELSE parse_name_store(
            parse_name_check(s1, id, idpos, pos, proptype, is_array,
                             is_indexed), prop, is_array, is_indexed)

(* The array size of an allocation: parse_simple at s2 and its check. *)
parse_name_size(s2) ==
    With([s3 \in {Call("parse_simple", s2)} |->
        check_types(s3, s3.t0, TYPE_INTEGER, s2.position, "for array size")])

(* The part of parse_name after "<-" when "array" follows; s1 is the   *)
(* state after the check of an indexed target.                         *)
parse_name_alloc(s1, id, idpos, prop) ==
    IF ~Ok(s1) THEN s1
    ELSE IF ~IS_ARRAY(prop.type)
    THEN abort_at(s1, idpos, "ERR_NOT_AN_ARRAY", id)
    ELSE gen_2(gen_newarray(parse_name_size(get_token(s1))), "ASTORE",
               prop.offset)

(* The part of parse_name after expect(TOK_GETS) gave s3. *)
parse_name_rhs(s3, id, idpos, prop, proptype, is_array, is_indexed) ==
    IF ~Ok(s3) THEN s3
    ELSE IF STARTS_EXPR(s3.token.type)
    THEN parse_name_expr(Call("parse_expr", s3), id, idpos, s3.position, prop,
                         proptype, is_array, is_indexed)
    ELSE IF s3.token.type = TOK_ARRAY
    THEN parse_name_alloc(
            IF is_indexed
            THEN check_types(s3, prop.type, proptype, s3.position,
                             "for allocation to indexed array")
            ELSE s3, id, idpos, prop)
    ELSE abort_c(s3, "ERR_ARRAY_ALLOCATION_OR_EXPRESSION_EXPECTED", "")

(* parse_name after expect_id gave s1 and find_name gave found, prop. *)
parse_name_found(s1, id, idpos, found, prop) ==
    IF ~Ok(s1) THEN s1
    ELSE IF ~found
    THEN abort_at(s1, idpos, "ERR_UNKNOWN_IDENTIFIER", id)
    ELSE IF s1.token.type = TOK_LPAR
    THEN IF ~IS_PROCEDURE(prop.type)
         THEN abort_at(s1, idpos, "ERR_NOT_A_PROCEDURE", id)
         ELSE gen_call(parse_arglist(s1, id, idpos), id, prop)
    ELSE IF s1.token.type = TOK_LBRACK \/ s1.token.type = TOK_GETS
    THEN IF IS_CALLABLE_TYPE(prop.type)
         THEN abort_at(s1, idpos, "ERR_NOT_A_VARIABLE", id)
         ELSE IF s1.token.type = TOK_LBRACK
         THEN IF ~IS_ARRAY(prop.type)
              THEN abort_at(s1, idpos, "ERR_NOT_AN_ARRAY", id)
              ELSE parse_name_rhs(expect(parse_index(s1, id), TOK_GETS), id,
                                  idpos, prop, BitXor(prop.type, TYPE_ARRAY),
                                  FALSE, TRUE)
         ELSE parse_name_rhs(expect(s1, TOK_GETS), id, idpos, prop, prop.type,
                             IS_ARRAY(prop.type), FALSE)
    ELSE abort_c(s1, "ERR_ARGUMENT_LIST_OR_VARIABLE_ASSIGNMENT_EXPECTED", "")

(* <name> = <id> (<arglist> | [<index>] "<-" (<expr> | "array" <simple>)) . *)
parse_name(s) ==
    IF ~Ok(s) THEN s
    ELSE With([s1 \in {expect_id(s)} |->
         With([f \in {find_name(s1, s.token.lexeme)} |->
            parse_name_found(s1, s.token.lexeme, s.position, f.found,
                             f.prop)])])

(* The instructions of parse_read. *)
parse_read_store(s3, prop) ==
    IF IS_ARRAY_TYPE(prop.type)
    THEN gen_1(gen_read(s3, IF IS_INTEGER_TYPE(prop.type) THEN TYPE_INTEGER
                            ELSE TYPE_BOOLEAN), "IASTORE")
    ELSE gen_2(gen_read(s3, IF IS_INTEGER_TYPE(prop.type) THEN TYPE_INTEGER
                            ELSE TYPE_BOOLEAN), "ISTORE", prop.offset)

(* parse_read after expect_id gave s2 and find_name gave found, prop;  *)
(* pos is the place of the identifier vname.                           *)
parse_read_found(s2, vname, pos, found, prop) ==
    IF ~Ok(s2) THEN s2
    ELSE IF ~found
    THEN abort_at(s2, pos, "ERR_UNKNOWN_IDENTIFIER", vname)
    ELSE IF s2.token.type = TOK_LBRACK
    THEN IF ~IS_ARRAY(prop.type)
         THEN abort_at(s2, pos, "ERR_NOT_AN_ARRAY", vname)
         ELSE parse_read_store(parse_index(s2, vname), prop)
    ELSE IF IS_ARRAY(prop.type)
    THEN abort_at(s2, pos, "ERR_SCALAR_VARIABLE_EXPECTED", vname)
    ELSE parse_read_store(s2, prop)

(* <read> = "read" <id> [<index>] . *)
parse_read(s) ==
    IF ~Ok(s) THEN s
    ELSE With([s1 \in {expect(s, TOK_READ)} |->
         With([s2 \in {expect_id(s1)} |->
         With([f \in {find_name(s2, s1.token.lexeme)} |->
            parse_read_found(s2, s1.token.lexeme, s1.position, f.found,
                             f.prop)])])])

(* An expression item as it would be without the IS_ARRAY test. *)
parse_write_any(s1, op, pos) == gen_print(s1, s1.t0)

(* gen_print(t1) and the array check of parse_write, the expression    *)
(* parsed into s1.                                                     *)
parse_write_expr(s1, op, pos) ==
    IF Ok(s1) /\ IS_ARRAY(s1.t0)
    THEN abort_at(gen_print(s1, s1.t0), pos, "ERR_ILLEGAL_ARRAY_OPERATION", op)
    ELSE gen_print(s1, s1.t0)

(* One item of a write statement; op is "write" or "&" and pos the     *)
(* position of that token.                                             *)
parse_write_item(s, op, pos) ==
    IF ~Ok(s) THEN s
    ELSE IF s.token.type = TOK_STR
    THEN get_token(gen_print_string(s, s.token.lexeme))
    ELSE IF STARTS_EXPR(s.token.type)
    THEN parse_write_expr(Call("parse_expr", s), op, pos)
    ELSE abort_c(s, "ERR_EXPRESSION_OR_STRING_EXPECTED", "")

RECURSIVE parse_write_loop(_)
parse_write_loop(s) ==
    IF ~Ok(s) THEN s
    ELSE IF s.token.type # TOK_AMPERSAND THEN s
    ELSE parse_write_loop(parse_write_item(get_token(s), "&", s.position))

(* <write> = "write" (<string> | <expr>) {"&" (<string> | <expr>)} . *)
parse_write(s) ==
    IF ~Ok(s) THEN s
    ELSE parse_write_loop(
            parse_write_item(expect(s, TOK_WRITE), "write", s.position))

(* <statement> = <exit> | <if> | <name> | <read> | <while> | <write> . *)
parse_statement(s) ==
    IF ~Ok(s) THEN s
    ELSE CASE s.token.type = TOK_EXIT  -> parse_exit(s)
           [] s.token.type = TOK_IF    -> parse_if(s)
           [] s.token.type = TOK_ID    -> parse_name(s)
           [] s.token.type = TOK_READ  -> parse_read(s)
           [] s.token.type = TOK_WHILE -> parse_while(s)
           [] s.token.type = TOK_WRITE -> parse_write(s)
           [] OTHER -> abort_c(s, "ERR_STATEMENT_EXPECTED", "")

parse_statements_loop(s) ==
    IF ~Ok(s) THEN s
    ELSE IF s.token.type # TOK_SEMICOLON THEN s
    ELSE parse_statements_loop(parse_statement(get_token(s)))

(* <statements> = "chill" | <statement> { ";" <statement> } . *)
parse_statements(s) ==
    IF ~Ok(s) THEN s
    ELSE IF s.token.type = TOK_CHILL THEN get_token(s)
    ELSE IF IS_STATEMENT(s.token.type)
    THEN parse_statements_loop(parse_statement(s))
    ELSE abort_c(s, "ERR_STATEMENT_EXPECTED", "")

Call(routine, s) ==
    CASE routine = "parse_statements" -> parse_statements(s)
      [] routine = "parse_expr" -> parse_expr(s)
      [] routine = "parse_simple" -> parse_simple(s)
      [] routine = "parse_term" -> parse_term(s)
      [] routine = "parse_factor" -> parse_factor(s)

(* ------------------------------------------------------------------ *)
(* Parser routines (simplc.c): declarations and the program            *)
(* ------------------------------------------------------------------ *)

(* <type> = ("boolean" | "integer") ["array"] .  t is *t0 on entry. *)
parse_type(s, t) ==
    IF ~Ok(s) THEN s
    ELSE IF ~IS_TYPE_TOKEN(s.token.type) THEN abort_c(s, "ERR_TYPE_EXPECTED", "")
    ELSE With([s1 \in {get_token(s)} |->
            IF s1.token.type = TOK_ARRAY
            THEN SetT0(get_token(s1),
                       BitOr(BitOr(t, IF s.token.type = TOK_BOOLEAN
                                      THEN TYPE_BOOLEAN ELSE TYPE_INTEGER),
                             TYPE_ARRAY))
            ELSE SetT0(s1, BitOr(t, IF s.token.type = TOK_BOOLEAN
                                    THEN TYPE_BOOLEAN ELSE TYPE_INTEGER))])

(* if (!insert_name(vname, prop)) { position = pos; abort_c(...) }, r  *)
(* being what insert_name returned.                                    *)
inserted(r, pos, vname) ==
    IF ~r.ok THEN abort_at(r.s, pos, "ERR_MULTIPLE_DEFINITION", vname) ELSE r.s

(* One identifier of a vardef as it would be if neither find_name nor  *)
(* the result of insert_name were looked at.                           *)
parse_vardef_unchecked(s1, vname, pos, t1) ==
    IF ~Ok(s1) THEN s1
    ELSE insert_name(s1, vname,
                     make_idprop(t1, get_variables_width(s1), 0, <<>>)).s

(* One identifier of a vardef after expect_id gave s1: find_name and   *)
(* insert_name of vname, which stands at pos.                          *)
parse_vardef_insert(s1, vname, pos, t1) ==
    IF ~Ok(s1) THEN s1
    ELSE IF find_name(s1, vname).found
    THEN abort_at(s1, pos, "ERR_MULTIPLE_DEFINITION", vname)
    ELSE inserted(insert_name(s1, vname,
                    make_idprop(t1, get_variables_width(s1), 0, <<>>)),
                  pos, vname)

(* One identifier of a vardef: expect_id, find_name, insert_name. *)
parse_vardef_id(s, t1) ==
    IF ~Ok(s) THEN s
    ELSE parse_vardef_insert(expect_id(s), s.token.lexeme, s.position, t1)

RECURSIVE parse_vardef_loop(_, _)
parse_vardef_loop(s, t1) ==
    IF ~Ok(s) THEN s
    ELSE IF s.token.type # TOK_COMMA THEN s
    ELSE parse_vardef_loop(parse_vardef_id(get_token(s), t1), t1)

(* <vardef> = <type> <id> { "," <id> } ";" . *)
parse_vardef(s) ==
    IF ~Ok(s) THEN s
    ELSE With([s1 \in {parse_type(s, 0)} |->
            expect(parse_vardef_loop(parse_vardef_id(s1, s1.t0), s1.t0),
                   TOK_SEMICOLON)])

RECURSIVE parse_body_vardefs(_)
parse_body_vardefs(s) ==
    IF ~Ok(s) THEN s
    ELSE IF ~IS_TYPE_TOKEN(s.token.type) THEN s
    ELSE parse_body_vardefs(parse_vardef(s))

(* <body> = "begin" { <vardef> } <statements> "end" . *)
parse_body(s) ==
    expect(Call("parse_statements", parse_body_vardefs(expect(s, TOK_BEGIN))),
           TOK_END)

(* One parameter of a funcdef: <type> <id>, appended to the list. *)
parse_param(s, plist) ==
    IF ~Ok(s) THEN [s |-> s, plist |-> plist]
    ELSE With([s1 \in {parse_type(s, 0)} |->
            [s |-> expect_id(s1),
             plist |-> Append(plist, [id |-> s1.token.lexeme, type |-> s1.t0,
                                      pos |-> s1.position])]])

RECURSIVE parse_params_loop(_, _)
parse_params_loop(s, plist) ==
    IF ~Ok(s) THEN [s |-> s, plist |-> plist]
    ELSE IF s.token.type # TOK_COMMA THEN [s |-> s, plist |-> plist]
    ELSE With([r \in {parse_param(get_token(s), plist)} |->
            parse_params_loop(r.s, r.plist)])

(* [<type> <id> { "," <type> <id> }] of parse_funcdef. *)
parse_params(s2) ==
    IF Ok(s2) /\ IS_TYPE_TOKEN(s2.token.type)
    THEN With([h \in {parse_param(s2, <<>>)} |->
            parse_params_loop(h.s, h.plist)])
    ELSE [s |-> s2, plist |-> <<>>]

(* The loop of parse_funcdef that inserts the parameters; prop is the  *)
(* local variable `prop` of parse_funcdef.                             *)
RECURSIVE insert_params(_, _, _, _)
insert_params(s, plist, i, prop) ==
    IF ~Ok(s) \/ i > Len(plist) THEN [s |-> s, prop |-> prop]
    ELSE IF find_name(s, plist[i].id).found
    THEN [s |-> abort_at(s, plist[i].pos, "ERR_MULTIPLE_DEFINITION", plist[i].id),
          prop |-> NoProp]
    ELSE With([r \in {insert_name(s, plist[i].id,
                        make_idprop(plist[i].type, get_variables_width(s), 0,
                                    <<>>))} |->
            IF ~r.ok
            THEN [s |-> abort_at(r.s, plist[i].pos, "ERR_MULTIPLE_DEFINITION",
                                 plist[i].id), prop |-> NoProp]
            ELSE insert_params(r.s, plist, i + 1,
                    make_idprop(plist[i].type, get_variables_width(s), 0,
                                <<>>))])

(* parse_funcdef from init_subroutine_codegen on; ip is the state and  *)
(* the value of `prop` after the parameters were inserted.             *)
parse_funcdef_body(ip, funcid) ==
    With([s7 \in {parse_body(init_subroutine_codegen(ip.s, funcid, ip.prop))} |->
    With([s8 \in {close_subroutine_codegen(s7, get_variables_width(s7))} |->
        IF ~Ok(s8) THEN s8
        ELSE [close_subroutine(s8) EXCEPT !.return_type = TYPE_NONE]])])

(* parse_funcdef from open_subroutine on; o is what it returned. *)
parse_funcdef_open(o, funcid, funcpos, plist, prop) ==
    IF ~o.ok THEN abort_at(o.s, funcpos, "ERR_MULTIPLE_DEFINITION", funcid)
    ELSE parse_funcdef_body(insert_params(o.s, plist, 1, prop), funcid)

(* parse_funcdef from return_type = t1 on: s4 is the state after the   *)
(* return type, s4.t0 being t1.                                        *)
parse_funcdef_typed(s4, funcid, funcpos, plist, prop) ==
    IF ~Ok(s4) THEN s4
    ELSE parse_funcdef_open(
            open_subroutine([s4 EXCEPT !.return_type = s4.t0], funcid, prop),
            funcid, funcpos, plist, prop)

(* parse_funcdef from expect(TOK_RPAR) on; r is the state and the list *)
(* of parameters.                                                      *)
parse_funcdef_params(r, funcid, funcpos) ==
    With([s3 \in {expect(r.s, TOK_RPAR)} |->
    With([s4 \in {IF Ok(s3) /\ s3.token.type = TOK_TO
                  THEN parse_type(get_token(s3), TYPE_CALLABLE)
                  ELSE SetT0(s3, TYPE_CALLABLE)} |->
        parse_funcdef_typed(s4, funcid, funcpos, r.plist,
            make_idprop(s4.t0, get_variables_width(s4), Len(r.plist),
                        [i \in 1..Len(r.plist) |-> r.plist[i].type]))])])

(* <funcdef> = "define" <id> "(" [<type> <id> { "," <type> <id> }] ")" *)
(*             ["->" <type>] <body> .                                  *)
parse_funcdef(s) ==
    IF ~Ok(s) THEN s
    ELSE With([s1 \in {expect([s EXCEPT !.return_type = TYPE_NONE],
                              TOK_DEFINE)} |->
            parse_funcdef_params(parse_params(expect(expect_id(s1), TOK_LPAR)),
                                 s1.token.lexeme, s.position)])

(* parse_program up to the first funcdef or the main body. *)
parse_program_head(s) ==
    With([s1 \in {expect(s, TOK_PROGRAM)} |->
        set_class_name(expect_id(s1), s1.token.lexeme)])

(* parse_program from the main body on. *)
parse_program_main(s) ==
    With([s2 \in {gen_1(parse_body(init_subroutine_codegen(s, "main", NoProp)),
                        "RETURN")} |->
        close_subroutine_codegen(s2, get_variables_width(s2))])

(* ------------------------------------------------------------------ *)
(* Scanner (scanner.c), on the characters of the source file.  A       *)
(* character is a string of length one; EOF is the string "EOF".  The  *)
(* scanner's state is one record:                                      *)
(*   text, nread   : the file and how many characters fgetc returned   *)
(*   ch            : the next source character                         *)
(*   column_number : the current column number                         *)
(*   last_read     : the static variable of next_char                  *)
(*   position      : [line, col] (error.h)                             *)
(*   token         : the token get_token filled in                     *)
(*   err           : the fatal error reported, if any                  *)
(* ------------------------------------------------------------------ *)
EOF == "EOF"

Printable == <<" ", "!", "\"", "#", "$", "%", "&", "'", "(", ")", "*", "+",
    ",", "-", ".", "/", "0", "1", "2", "3", "4", "5", "6", "7", "8", "9", ":",
    ";", "<", "=", ">", "?", "@", "A", "B", "C", "D", "E", "F", "G", "H", "I",
    "J", "K", "L", "M", "N", "O", "P", "Q", "R", "S", "T", "U", "V", "W", "X",
    "Y", "Z", "[", "\\", "]", "^", "_", "backquote", "a", "b", "c", "d", "e", "f", "g",
    "h", "i", "j", "k", "l", "m", "n", "o", "p", "q", "r", "s", "t", "u", "v",
    "w", "x", "y", "z", "{", "|", "}", "~">>

(* The ASCII code of a character. *)
CharCode(c) ==
    IF c = "\n" THEN 10
    ELSE IF c = "\t" THEN 9
    ELSE 31 + (CHOOSE i \in 1..Len(Printable) : Printable[i] = c)

isspace(c) == c \in {" ", "\n", "\t"}
isdigit(c) == c # EOF /\ c \notin {"\n", "\t"} /\ CharCode(c) >= 48 /\ CharCode(c) <= 57
isalpha(c) ==
    /\ c # EOF /\ c \notin {"\n", "\t"}
    /\ \/ (CharCode(c) >= 65 /\ CharCode(c) <= 90)
       \/ (CharCode(c) >= 97 /\ CharCode(c) <= 122)
isprint(c) == c # EOF /\ c \notin {"\n", "\t"}

W(word, type) == [word |-> word, type |-> type]

reserved == <<
    W(<<"a", "n", "d">>, TOK_AND),
    W(<<"a", "r", "r", "a", "y">>, TOK_ARRAY),
    W(<<"b", "e", "g", "i", "n">>, TOK_BEGIN),
    W(<<"b", "o", "o", "l", "e", "a", "n">>, TOK_BOOLEAN),
    W(<<"c", "h", "i", "l", "l">>, TOK_CHILL),
    W(<<"d", "e", "f", "i", "n", "e">>, TOK_DEFINE),
    W(<<"d", "o">>, TOK_DO),
    W(<<"e", "l", "s", "e">>, TOK_ELSE),
    W(<<"e", "l", "s", "i", "f">>, TOK_ELSIF),
    W(<<"e", "n", "d">>, TOK_END),
    W(<<"e", "x", "i", "t">>, TOK_EXIT),
    W(<<"f", "a", "l", "s", "e">>, TOK_FALSE),
    W(<<"i", "f">>, TOK_IF),
    W(<<"i", "n", "t", "e", "g", "e", "r">>, TOK_INTEGER),
    W(<<"m", "o", "d">>, TOK_MOD),
    W(<<"n", "o", "t">>, TOK_NOT),
    W(<<"o", "r">>, TOK_OR),
    W(<<"p", "r", "o", "g", "r", "a", "m">>, TOK_PROGRAM),
    W(<<"r", "e", "a", "d">>, TOK_READ),
    W(<<"t", "h", "e", "n">>, TOK_THEN),
    W(<<"t", "r", "u", "e">>, TOK_TRUE),
    W(<<"w", "h", "i", "l", "e">>, TOK_WHILE),
    W(<<"w", "r", "i", "t", "e">>, TOK_WRITE)>>

NUM_RESERVED_WORDS == Len(reserved)

MAX_ID_LENGTH == 32

INT_MAX == 2147483647

LexOk(L) == L.err.kind = "none"

lex_error(L, kind) ==
    IF ~LexOk(L) THEN L
    ELSE [L EXCEPT !.err = [kind |-> kind, line |-> L.position.line,
                            col |-> L.position.col]]

next_char(L) ==
    IF ~LexOk(L) THEN L
    ELSE IF L.nread >= Len(L.text) THEN [L EXCEPT !.ch = EOF]
    ELSE LET c == L.text[L.nread + 1]
             nl == L.last_read = "\n"
         IN [L EXCEPT !.ch = c, !.nread = @ + 1,
                      !.position.line = IF nl THEN @ + 1 ELSE @,
                      !.column_number = IF nl THEN 1 ELSE @ + 1,
                      !.last_read = c]

init_scanner(text) ==
    next_char([text |-> text, nread |-> 0, ch |-> EOF, column_number |-> 0,
               last_read |-> "", position |-> [line |-> 1, col |-> 0],
               token |-> Tok(TOK_EOF, <<>>, 0),
               err |-> [kind |-> "none", line |-> 0, col |-> 0]])

(* skip_comment, entered after the opening of a comment was read. *)
RECURSIVE skip_comment(_), skip_comment_loop(_, _)
skip_comment_loop(L, start_pos) ==
    IF ~LexOk(L) THEN L
    ELSE IF L.ch = EOF
    THEN lex_error([L EXCEPT !.position = start_pos], "comment not closed")
    ELSE IF L.ch = "*"
    THEN LET L1 == next_char(L)
         IN IF L1.ch = ")" THEN next_char(L1)
            ELSE skip_comment_loop(L1, start_pos)
    ELSE IF L.ch = "("
    THEN LET L1 == next_char(L)
         IN IF L1.ch = "*"
            THEN skip_comment_loop(skip_comment(next_char(L1)), start_pos)
            ELSE skip_comment_loop(next_char(L1), start_pos)
    ELSE skip_comment_loop(next_char(L), start_pos)

skip_comment(L) ==
    skip_comment_loop(L, [line |-> L.position.line, col |-> L.column_number - 2])

(* strcmp on two words, as -1, 0 or 1. *)
RECURSIVE strcmp(_, _)
strcmp(u, v) ==
    IF u = <<>> /\ v = <<>> THEN 0
    ELSE IF u = <<>> THEN -1
    ELSE IF v = <<>> THEN 1
    ELSE IF CharCode(u[1]) < CharCode(v[1]) THEN -1
    ELSE IF CharCode(u[1]) > CharCode(v[1]) THEN 1
    ELSE strcmp(Tail(u), Tail(v))

(* The binary search of process_word.  reserved[mid] with mid =        *)
(* NUM_RESERVED_WORDS is a read past the end of the table: undefined   *)
(* behaviour, whose outcome is ub: the comparison says "less", "equal" *)
(* or "greater", or the read crashes ("crash").                        *)
RECURSIVE word_search(_, _, _, _, _)
word_search(lexeme, low, high, ub, oob) ==
    LET mid == (low + high) \div 2
    IN IF low > high THEN [low |-> low, mid |-> mid, high |-> high, oob |-> oob]
       ELSE IF mid >= NUM_RESERVED_WORDS /\ ub = "crash"
       THEN [low |-> low, mid |-> mid, high |-> high, oob |-> "crash"]
       ELSE LET cmp == IF mid >= NUM_RESERVED_WORDS
                       THEN (IF ub = "less" THEN -1
                             ELSE IF ub = "greater" THEN 1 ELSE 0)
                       ELSE strcmp(lexeme, reserved[mid + 1].word)
                o == IF mid >= NUM_RESERVED_WORDS THEN "read" ELSE oob
            IN IF cmp > 0 THEN word_search(lexeme, mid + 1, high, ub, o)
               ELSE IF cmp < 0 THEN word_search(lexeme, low, mid - 1, ub, o)
               ELSE [low |-> low, mid |-> mid, high |-> high, oob |-> o]

RECURSIVE read_word(_, _)
read_word(L, lexeme) ==
    IF ~LexOk(L) THEN [L |-> L, lexeme |-> lexeme]
    ELSE IF ~(isdigit(L.ch) \/ isalpha(L.ch) \/ L.ch = "_")
    THEN [L |-> L, lexeme |-> lexeme]
    ELSE IF Len(lexeme) = MAX_ID_LENGTH
    THEN [L |-> lex_error(L, "identifier too long"), lexeme |-> lexeme]
    ELSE read_word(next_char(L), Append(lexeme, L.ch))

process_word(L, ub) ==
    LET L0 == [L EXCEPT !.position.col = L.column_number]
        r == read_word(L0, <<>>)
        b == word_search(r.lexeme, 0, NUM_RESERVED_WORDS, ub, "none")
    IN IF ~LexOk(r.L) THEN r.L
       ELSE IF b.oob = "crash" THEN lex_error(r.L, "crash")
       ELSE IF b.low > b.high
       THEN [r.L EXCEPT !.token = Tok(TOK_ID, r.lexeme, 0)]
       ELSE IF b.mid >= NUM_RESERVED_WORDS
       THEN [r.L EXCEPT !.token = Tok(-1, <<>>, 0)]
       ELSE [r.L EXCEPT !.token = Tok(reserved[b.mid + 1].type, <<>>, 0)]

(* 10 * num + digit in the 32 bits of an int, num being 0 .. INT_MAX,   *)
(* computed on the 16-bit halves of num: the sum wraps around when it  *)
(* does not fit.                                                       *)
int_times_10_plus(num, digit) ==
    With([low \in {10 * (num % Half) + digit} |->
        With([high \in {(10 * (num \div Half) + (low \div Half)) % Half} |->
            (IF high >= Half \div 2 THEN high - Half ELSE high) * Half
            + (low % Half)])])

(* The guard of process_number as it would be if it left the digit out *)
(* of the test.                                                        *)
fits_without_digit(num, digit) == num <= INT_MAX \div 10

(* num = 10 * num + digit is computed: !(num > (INT_MAX - digit) / 10) *)
fits(num, digit) == ~(num > (INT_MAX - digit) \div 10)

RECURSIVE read_number(_, _)
read_number(L, num) ==
    IF ~LexOk(L) \/ ~isdigit(L.ch) THEN [L |-> L, num |-> num]
    ELSE IF ~fits(num, CharCode(L.ch) - 48)
    THEN [L |-> lex_error(L, "number too large"), num |-> num]
    ELSE read_number(next_char(L),
                     int_times_10_plus(num, CharCode(L.ch) - 48))

process_number(L) ==
    LET r == read_number([L EXCEPT !.position.col = L.column_number], 0)
    IN IF ~LexOk(r.L) THEN r.L
       ELSE [r.L EXCEPT !.token = Tok(TOK_NUM, <<>>, r.num)]

RECURSIVE read_string(_, _, _)
read_string(L, str, start_pos) ==
    IF ~LexOk(L) THEN [L |-> L, str |-> str]
    ELSE IF L.ch = EOF
    THEN [L |-> lex_error([L EXCEPT !.position = start_pos], "string not closed"),
          str |-> str]
    ELSE IF L.ch = "\""
    THEN [L |-> next_char(L), str |-> str]
    ELSE IF L.ch = "\\"
    THEN LET L1 == next_char(L)
         IN IF L1.ch \in {"n", "t", "\"", "\\"}
            THEN read_string(next_char(L1), str \o <<"\\", L1.ch>>, start_pos)
            ELSE [L |-> lex_error([L1 EXCEPT !.position.col =
                                        L1.column_number - 1],
                                  "illegal escape code"), str |-> str]
    ELSE IF isprint(L.ch)
    THEN read_string(next_char(L), Append(str, L.ch), start_pos)
    ELSE [L |-> lex_error([L EXCEPT !.position.col = L.column_number],
                          "non-printable character"), str |-> str]

process_string(L) ==
    LET r == read_string(L, <<>>, [line |-> L.position.line,
                                   col |-> L.column_number - 1])
    IN IF ~LexOk(r.L) THEN r.L
       ELSE [r.L EXCEPT !.token = Tok(TOK_STR, r.str, 0)]

RECURSIVE skip_space(_)
skip_space(L) == IF LexOk(L) /\ isspace(L.ch) THEN skip_space(next_char(L)) ELSE L

SetTok(L, type) == IF ~LexOk(L) THEN L ELSE [L EXCEPT !.token = Tok(type, <<>>, 0)]

(* get_token of scanner.c; ub is the outcome of the undefined          *)
(* behaviour of process_word, should it occur.                         *)
RECURSIVE lex_get_token(_, _)
lex_get_token(L, ub) ==
    IF ~LexOk(L) THEN L
    ELSE LET L0 == skip_space(L)
             L1 == [L0 EXCEPT !.position.col = L0.column_number]
             c == L1.ch
             n == next_char(L1)
         IN IF c = EOF THEN SetTok(L1, TOK_EOF)
            ELSE IF isalpha(c) \/ c = "_" THEN process_word(L1, ub)
            ELSE IF isdigit(c) THEN process_number(L1)
            ELSE CASE c = "\"" -> process_string(n)
                   [] c = "=" -> SetTok(n, TOK_EQ)
                   [] c = ">" -> IF n.ch = "=" THEN SetTok(next_char(n), TOK_GE)
                                 ELSE SetTok(n, TOK_GT)
                   [] c = "<" -> IF n.ch = "=" THEN SetTok(next_char(n), TOK_LE)
                                 ELSE IF n.ch = "-"
                                 THEN SetTok(next_char(n), TOK_GETS)
                                 ELSE SetTok(n, TOK_LT)
                   [] c = "#" -> SetTok(n, TOK_NE)
                   [] c = "-" -> IF n.ch = ">" THEN SetTok(next_char(n), TOK_TO)
                                 ELSE SetTok(n, TOK_MINUS)
                   [] c = "+" -> SetTok(n, TOK_PLUS)
                   [] c = "/" -> SetTok(n, TOK_DIV)
                   [] c = "*" -> SetTok(n, TOK_MUL)
                   [] c = "&" -> SetTok(n, TOK_AMPERSAND)
                   [] c = "[" -> SetTok(n, TOK_LBRACK)
                   [] c = "]" -> SetTok(n, TOK_RBRACK)
                   [] c = "," -> SetTok(n, TOK_COMMA)
                   [] c = "(" -> IF n.ch = "*"
                                 THEN lex_get_token(skip_comment(next_char(n)), ub)
                                 ELSE SetTok(n, TOK_LPAR)
                   [] c = ")" -> SetTok(n, TOK_RPAR)
                   [] c = ";" -> SetTok(n, TOK_SEMICOLON)
                   [] OTHER -> lex_error(L1, "illegal character")

(* ------------------------------------------------------------------ *)
(* The compiler as a state machine: main() of simplc.c                 *)
(* ------------------------------------------------------------------ *)
State ==
    [src |-> src, scanned |-> scanned, token |-> token, position |-> position,
     return_type |-> return_type, tabs |-> tabs, table |-> table,
     saved_table |-> saved_table, curr_offset |-> curr_offset,
     class_name |-> class_name, cur_sub |-> cur_sub, code |-> code,
     label_count |-> label_count, subs |-> subs, err |-> err, t0 |-> TYPE_NONE]

(* The state after a routine returned r as it would be if main() went  *)
(* on after an error.                                                  *)
BecomesAnyway(r, next_pc) ==
    /\ src' = r.src /\ scanned' = r.scanned /\ token' = r.token
    /\ position' = r.position /\ return_type' = r.return_type
    /\ tabs' = r.tabs /\ table' = r.table /\ saved_table' = r.saved_table
    /\ curr_offset' = r.curr_offset /\ class_name' = r.class_name
    /\ cur_sub' = r.cur_sub /\ code' = r.code /\ label_count' = r.label_count
    /\ subs' = r.subs /\ err' = r.err
    /\ pc' = next_pc
    /\ UNCHANGED <<ch, column_number, last_read, tokens, returned>>

(* The state after a routine returned r; a fatal error ends main(). *)
Becomes(r, next_pc) ==
    /\ src' = r.src /\ scanned' = r.scanned /\ token' = r.token
    /\ position' = r.position /\ return_type' = r.return_type
    /\ tabs' = r.tabs /\ table' = r.table /\ saved_table' = r.saved_table
    /\ curr_offset' = r.curr_offset /\ class_name' = r.class_name
    /\ cur_sub' = r.cur_sub /\ code' = r.code /\ label_count' = r.label_count
    /\ subs' = r.subs /\ err' = r.err
    /\ pc' = IF Ok(r) THEN next_pc ELSE "failed"
    /\ UNCHANGED <<ch, column_number, last_read, tokens, returned>>

(* main() up to parse_program: init_scanner, init_symbol_table,        *)
(* init_code_generation and the first get_token, on source text p.     *)
Fresh(p) ==
    [src |-> p, scanned |-> 0, token |-> EOFToken, position |-> 0,
     return_type |-> TYPE_NONE, tabs |-> <<>>, table |-> 0,
     saved_table |-> 0, curr_offset |-> 0, class_name |-> "",
     cur_sub |-> [name |-> "", prop |-> NoProp], code |-> <<>>,
     label_count |-> 0, subs |-> <<>>, err |-> NoErr, t0 |-> TYPE_NONE]

Started(p) == get_token(init_symbol_table(Fresh(p)))

ProgramHead ==
    /\ pc = "start"
    /\ Becomes(parse_program_head(State), "funcdefs")

Funcdef ==
    /\ pc = "funcdefs"
    /\ token.type = TOK_DEFINE
    /\ Becomes(parse_funcdef(State), "funcdefs")

MainBody ==
    /\ pc = "funcdefs"
    /\ token.type # TOK_DEFINE
    /\ Becomes(parse_program_main(State), "parsed")

(* make_code_file, assemble and the release of the resources. *)
Finish ==
    /\ pc = "parsed"
    /\ pc' = "done"
    /\ UNCHANGED <<src, scanned, token, position, return_type, tabs, table,
                   saved_table, curr_offset, class_name, cur_sub, code,
                   label_count, subs, err, ch, column_number, last_read,
                   tokens, returned>>

(* ------------------------------------------------------------------ *)
(* Source texts: the tokens of SIMPL programs, written by the grammar  *)
(* of the language.                                                    *)
(* ------------------------------------------------------------------ *)
K(type) == Tok(type, "", 0)
ID(name) == Tok(TOK_ID, name, 0)
NUM(value) == Tok(TOK_NUM, "", value)
STR(text) == Tok(TOK_STR, text, 0)

RECURSIVE Concat(_)
Concat(ss) == IF ss = <<>> THEN <<>> ELSE Head(ss) \o Concat(Tail(ss))

(* type = ("boolean" | "integer") [ "array" ] *)
TypeToks(type) ==
    <<IF IS_BOOLEAN_TYPE(type) THEN K(TOK_BOOLEAN) ELSE K(TOK_INTEGER)>>
    \o (IF IS_ARRAY_TYPE(type) THEN <<K(TOK_ARRAY)>> ELSE <<>>)

(* vardef = type id ";" *)
VarDef(type, name) == TypeToks(type) \o <<ID(name), K(TOK_SEMICOLON)>>

(* [ type id { "," type id } ], for parameters given as <<type, name>> *)
RECURSIVE ParamToks(_)
ParamToks(ps) ==
    IF ps = <<>> THEN <<>>
    ELSE TypeToks(ps[1][1]) \o <<ID(ps[1][2])>>
         \o (IF Len(ps) > 1 THEN <<K(TOK_COMMA)>> ELSE <<>>)
         \o ParamToks(Tail(ps))

(* body = "begin" { vardef } statements "end" *)
Body(vardefs, statements) ==
    <<K(TOK_BEGIN)>> \o vardefs \o statements \o <<K(TOK_END)>>

(* funcdef = "define" id "(" [ params ] ")" [ "->" type ] body;        *)
(* ret is TYPE_NONE for a procedure.                                   *)
FuncDef(name, ps, ret, body) ==
    <<K(TOK_DEFINE), ID(name), K(TOK_LPAR)>> \o ParamToks(ps)
    \o <<K(TOK_RPAR)>>
    \o (IF ret = TYPE_NONE THEN <<>> ELSE <<K(TOK_TO)>> \o TypeToks(ret))
    \o body

(* program = "program" id { funcdef } body *)
Program(funcdefs, body) ==
    <<K(TOK_PROGRAM), ID("P")>> \o funcdefs \o body

(* expr { sep expr } *)
RECURSIVE Sep(_, _)
Sep(es, sep) ==
    IF es = <<>> THEN <<>>
    ELSE es[1] \o (IF Len(es) > 1 THEN <<sep>> ELSE <<>>) \o Sep(Tail(es), sep)

(* All sequences over S of length lo..hi. *)
SeqsOf(S, lo, hi) == UNION {[1..n -> S] : n \in lo..hi}

(* The whole run of main() on a source text, for a claim that relates  *)
(* two runs.                                                           *)
RECURSIVE parse_funcdefs(_)
parse_funcdefs(s) ==
    IF ~Ok(s) \/ s.token.type # TOK_DEFINE THEN s
    ELSE parse_funcdefs(parse_funcdef(s))

Compile(p) == parse_program_main(parse_funcdefs(parse_program_head(Started(p))))

(* ------------------------------------------------------------------ *)
(* The programs the compiler is run on.                                *)
(* ------------------------------------------------------------------ *)
MaxParams == 2
MaxArgs == 3
MaxElsif == 2
MaxFuncs == 2
MaxLocals == 2
MaxTerms == 2

FuncNames == <<"f", "g", "h", "q">>
ParamNames == <<"v", "w", "y", "z">>
LocalNames == <<"x", "b", "a", "c">>

(* integer x; boolean b; integer array a; boolean array c; *)
StdVars ==
    VarDef(TYPE_INTEGER, "x") \o VarDef(TYPE_BOOLEAN, "b")
    \o VarDef(TYPE_INTEGER + TYPE_ARRAY, "a")
    \o VarDef(TYPE_BOOLEAN + TYPE_ARRAY, "c")

(* integer x, boolean b, integer array a, boolean array c *)
StdParams ==
    <<<<TYPE_INTEGER, "x">>, <<TYPE_BOOLEAN, "b">>,
      <<TYPE_INTEGER + TYPE_ARRAY, "a">>, <<TYPE_BOOLEAN + TYPE_ARRAY, "c">>>>

Main(statements) == Program(<<>>, Body(StdVars, statements))

Chill == <<K(TOK_CHILL)>>
Assign(name, e) == <<ID(name), K(TOK_GETS)>> \o e

(* --- calls: a callee with the parameter types ptypes is called with  *)
(* --- the arguments args, as a statement or as a factor.              *)
ScalarTypes == {TYPE_INTEGER, TYPE_BOOLEAN}
ArgOf(type) == IF type = TYPE_INTEGER THEN <<NUM(1)>> ELSE <<K(TOK_TRUE)>>
CallKinds == {"procedure", "function"}
CallParams == [kind : CallKinds,
               ptypes : SeqsOf(ScalarTypes, 0, MaxParams),
               atypes : SeqsOf(ScalarTypes, 0, MaxArgs)]

CallToks(name, atypes) ==
    <<ID(name), K(TOK_LPAR)>>
    \o Sep([i \in 1..Len(atypes) |-> ArgOf(atypes[i])], K(TOK_COMMA))
    \o <<K(TOK_RPAR)>>

CallProgram(c) ==
    LET ps == [i \in 1..Len(c.ptypes) |-> <<c.ptypes[i], ParamNames[i]>>]
    IN IF c.kind = "procedure"
       THEN Program(FuncDef("p", ps, TYPE_NONE, Body(<<>>, Chill)),
                    Body(StdVars, CallToks("p", c.atypes)))
       ELSE Program(FuncDef("f", ps, TYPE_INTEGER,
                            Body(<<>>, <<K(TOK_EXIT), NUM(1)>>)),
                    Body(StdVars, Assign("x", CallToks("f", c.atypes))))

(* --- if statements: "if" b "then" arm { "elsif" b "then" arm }       *)
(* --- [ "else" arm ] "end", followed by one more statement.           *)
ArmStatements == {"chill", "assign"}
ArmToks(a) == IF a = "chill" THEN Chill ELSE Assign("x", <<NUM(1)>>)
IfParams == [arms : SeqsOf(ArmStatements, 1, MaxElsif + 1),
             else : ArmStatements \cup {"none"}]

RECURSIVE ElsifToks(_)
ElsifToks(arms) ==
    IF arms = <<>> THEN <<>>
    ELSE <<K(TOK_ELSIF), ID("b"), K(TOK_THEN)>> \o ArmToks(arms[1])
         \o ElsifToks(Tail(arms))

IfToks(c) ==
    <<K(TOK_IF), ID("b"), K(TOK_THEN)>> \o ArmToks(c.arms[1])
    \o ElsifToks(Tail(c.arms))
    \o (IF c.else = "none" THEN <<>> ELSE <<K(TOK_ELSE)>> \o ArmToks(c.else))
    \o <<K(TOK_END)>>

IfProgram(c) == Main(IfToks(c))

(* --- indexed accesses a[e]: as the target of an assignment or of a   *)
(* --- read, and as a factor.                                          *)
IndexExprs ==
    {<<NUM(1)>>, <<ID("x")>>, <<NUM(1), K(TOK_PLUS), ID("x")>>,
     <<ID("x"), K(TOK_PLUS), NUM(1)>>, <<K(TOK_LPAR), NUM(1), K(TOK_RPAR)>>,
     <<K(TOK_MINUS), ID("x")>>, <<ID("x"), K(TOK_MUL), NUM(2)>>}
IndexUses == {"assign", "read", "factor"}
IndexParams == [use : IndexUses, e : IndexExprs]

Indexed(name, e) == <<ID(name), K(TOK_LBRACK)>> \o e \o <<K(TOK_RBRACK)>>

(* The right-hand side of the indexed assignment. *)
IndexRhs == <<NUM(7)>>

IndexProgram(c) ==
    CASE c.use = "assign" -> Main(Indexed("a", c.e) \o <<K(TOK_GETS)>> \o IndexRhs)
      [] c.use = "read" -> Main(<<K(TOK_READ)>> \o Indexed("a", c.e))
      [] c.use = "factor" -> Main(Assign("x", Indexed("a", c.e)))

(* --- scopes: nf funcdefs, each with np parameters and nv variables,  *)
(* --- before a main body with nm variables.                           *)
ScopeParams == [nf : 0..MaxFuncs, np : 0..MaxParams, nv : 0..MaxLocals,
                nm : 0..MaxLocals]

VarDefs(n) == Concat([i \in 1..n |-> VarDef(TYPE_INTEGER, LocalNames[i])])

ScopeProgram(c) ==
    LET ps == [i \in 1..c.np |-> <<TYPE_INTEGER, ParamNames[i]>>]
        fd(i) == FuncDef(FuncNames[i], ps, TYPE_NONE, Body(VarDefs(c.nv), Chill))
    IN Program(Concat([i \in 1..c.nf |-> fd(i)]), Body(VarDefs(c.nm), Chill))

(* --- simple expressions: [ "-" ] term { addop term } over the terms  *)
(* --- 1 and x.                                                        *)
SimpleTerms == {<<NUM(1)>>, <<ID("x")>>}
AddOps == {TOK_PLUS, TOK_MINUS}
SimpleParams ==
    UNION {[neg : BOOLEAN, terms : [1..n -> SimpleTerms],
            ops : [1..(n - 1) -> AddOps]] : n \in 1..MaxTerms}

RECURSIVE SimpleRest(_, _)
SimpleRest(terms, ops) ==
    IF ops = <<>> THEN <<>>
    ELSE <<K(ops[1])>> \o terms[1] \o SimpleRest(Tail(terms), Tail(ops))

SimpleToks(c) ==
    (IF c.neg THEN <<K(TOK_MINUS)>> ELSE <<>>) \o c.terms[1]
    \o SimpleRest(Tail(c.terms), c.ops)

SimpleProgram(c) == Main(Assign("x", SimpleToks(c)))

(* --- operators: a binary operator on two operands, or a unary one on *)
(* --- one, each operand a scalar or an array variable.                *)
RelOps == {TOK_EQ, TOK_NE, TOK_LT, TOK_LE, TOK_GT, TOK_GE}
ArithOps == {TOK_PLUS, TOK_MINUS, TOK_MUL, TOK_DIV, TOK_MOD}
LogicOps == {TOK_AND, TOK_OR}
UnaryOps == {TOK_NOT, TOK_MINUS}
OpParams ==
    [arity : {2}, op : RelOps \cup ArithOps \cup LogicOps,
     larr : BOOLEAN, rarr : BOOLEAN]
    \cup [arity : {1}, op : UnaryOps, larr : BOOLEAN, rarr : {FALSE}]

(* The operator's name in the error message. *)
OpName(c) ==
    IF c.arity = 1 /\ c.op = TOK_MINUS THEN "unary minus"
    ELSE get_token_string(c.op)

OpIsLogical(c) == c.op \in LogicOps \cup {TOK_NOT}

Operand(c, arr) ==
    <<ID(IF OpIsLogical(c) THEN (IF arr THEN "c" ELSE "b")
         ELSE (IF arr THEN "a" ELSE "x"))>>

OpToks(c) ==
    IF c.arity = 1 THEN <<K(c.op)>> \o Operand(c, c.larr)
    ELSE Operand(c, c.larr) \o <<K(c.op)>> \o Operand(c, c.rarr)

OpProgram(c) ==
    Main(Assign(IF OpIsLogical(c) \/ c.op \in RelOps THEN "b" ELSE "x",
                OpToks(c)))

(* --- exit statements: "exit" [ e ], plain or inside an if or a       *)
(* --- while, in the body of a subroutine with return type ret         *)
(* --- (TYPE_NONE for a procedure) or in the main body.                *)
E(toks, type) == [toks |-> toks, type |-> type]
ExitExprs ==
    {E(<<>>, TYPE_NONE),
     E(<<NUM(1)>>, TYPE_INTEGER), E(<<K(TOK_TRUE)>>, TYPE_BOOLEAN),
     E(<<ID("x")>>, TYPE_INTEGER), E(<<ID("b")>>, TYPE_BOOLEAN),
     E(<<ID("a")>>, TYPE_INTEGER + TYPE_ARRAY),
     E(<<ID("c")>>, TYPE_BOOLEAN + TYPE_ARRAY),
     E(<<ID("x"), K(TOK_PLUS), NUM(1)>>, TYPE_INTEGER),
     E(<<ID("x"), K(TOK_LT), NUM(1)>>, TYPE_BOOLEAN),
     E(<<ID("a"), K(TOK_LBRACK), NUM(1), K(TOK_RBRACK)>>, TYPE_INTEGER),
     E(<<K(TOK_NOT), ID("b")>>, TYPE_BOOLEAN),
     E(<<K(TOK_LPAR), ID("x"), K(TOK_RPAR)>>, TYPE_INTEGER)}
RetTypes ==
    {TYPE_NONE, TYPE_INTEGER, TYPE_BOOLEAN, TYPE_INTEGER + TYPE_ARRAY,
     TYPE_BOOLEAN + TYPE_ARRAY}
Nests == {"plain", "if", "while"}
ExitParams ==
    [where : {"subroutine"}, ret : RetTypes, e : ExitExprs, nest : Nests]
    \cup [where : {"main"}, ret : {TYPE_NONE}, e : ExitExprs, nest : Nests]

Nested(nest, statement) ==
    CASE nest = "plain" -> statement
      [] nest = "if" -> <<K(TOK_IF), ID("b"), K(TOK_THEN)>> \o statement
                        \o <<K(TOK_END)>>
      [] nest = "while" -> <<K(TOK_WHILE), ID("b"), K(TOK_DO)>> \o statement
                           \o <<K(TOK_END)>>

ExitProgram(c) ==
    LET st == Nested(c.nest, <<K(TOK_EXIT)>> \o c.e.toks)
    IN IF c.where = "main" THEN Main(st)
       ELSE Program(FuncDef("f", StdParams, c.ret, Body(<<>>, st)),
                    Body(<<>>, Chill))

(* --- slots: a funcdef whose parameters have the types ptypes and     *)
(* --- whose body has one vardef per type of vtypes, of one name or    *)
(* --- (twice) of two, and reads every parameter and variable in the   *)
(* --- order of declaration; after another funcdef or not.             *)
SlotTypes == {TYPE_INTEGER, TYPE_INTEGER + TYPE_ARRAY}
SecondNames == <<"x2", "b2", "a2", "c2">>
SlotParams == [after : BOOLEAN, ptypes : SeqsOf(SlotTypes, 0, MaxParams),
               vtypes : SeqsOf(SlotTypes, 0, MaxLocals), twice : BOOLEAN]

(* read name, or read name[0] for an array *)
ReadToks(type, name) ==
    <<K(TOK_READ), ID(name)>>
    \o (IF IS_ARRAY_TYPE(type)
        THEN <<K(TOK_LBRACK), NUM(0), K(TOK_RBRACK)>> ELSE <<>>)

(* type name ";" or type name "," name2 ";" *)
SlotVarDef(type, i, twice) ==
    TypeToks(type) \o <<ID(LocalNames[i])>>
    \o (IF twice THEN <<K(TOK_COMMA), ID(SecondNames[i])>> ELSE <<>>)
    \o <<K(TOK_SEMICOLON)>>

SlotReads(c) ==
    [i \in 1..Len(c.ptypes) |-> ReadToks(c.ptypes[i], ParamNames[i])]
    \o Concat([i \in 1..Len(c.vtypes) |->
         <<ReadToks(c.vtypes[i], LocalNames[i])>>
         \o (IF c.twice THEN <<ReadToks(c.vtypes[i], SecondNames[i])>>
             ELSE <<>>)])

SlotFuncDef(c) ==
    FuncDef("f", [i \in 1..Len(c.ptypes) |-> <<c.ptypes[i], ParamNames[i]>>],
            TYPE_NONE,
            Body(Concat([i \in 1..Len(c.vtypes) |->
                           SlotVarDef(c.vtypes[i], i, c.twice)]),
                 IF SlotReads(c) = <<>> THEN Chill
                 ELSE Sep(SlotReads(c), K(TOK_SEMICOLON))))

SlotProgram(c) ==
    Program((IF c.after
             THEN FuncDef("g", <<<<TYPE_INTEGER, "v">>, <<TYPE_INTEGER, "w">>>>,
                          TYPE_NONE, Body(VarDef(TYPE_INTEGER, "x"), Chill))
             ELSE <<>>) \o SlotFuncDef(c),
            Body(<<>>, Chill))

(* --- redeclarations: after nb other variables, the variable v is     *)
(* --- declared and declared again in the same scope, the main body or *)
(* --- the body of a subroutine: in one vardef (integer v, v;), in a   *)
(* --- second vardef of the same or of another type, or as a parameter *)
(* --- and then in the body.                                           *)
DupForms == {"comma", "vardef", "retyped", "parameter"}
DupParams ==
    {c \in [where : {"main", "subroutine"}, nb : 0..MaxLocals,
            form : DupForms] :
        c.form = "parameter" => c.where = "subroutine"}

(* The tokens of the scope up to the second v, from the first token of *)
(* the body on.                                                        *)
DupBodyStart(c) ==
    <<K(TOK_BEGIN)>> \o VarDefs(c.nb)
    \o CASE c.form = "comma" ->
              <<K(TOK_INTEGER), ID("v"), K(TOK_COMMA)>>
         [] c.form = "vardef" ->
              VarDef(TYPE_INTEGER, "v") \o <<K(TOK_INTEGER)>>
         [] c.form = "retyped" ->
              VarDef(TYPE_INTEGER, "v") \o <<K(TOK_BOOLEAN), K(TOK_ARRAY)>>
         [] c.form = "parameter" -> <<K(TOK_INTEGER)>>

(* The source text up to the second v. *)
DupStart(c) ==
    <<K(TOK_PROGRAM), ID("P")>>
    \o (IF c.where = "main" THEN <<>>
        ELSE <<K(TOK_DEFINE), ID("f"), K(TOK_LPAR)>>
             \o (IF c.form = "parameter"
                 THEN <<K(TOK_INTEGER), ID("v")>> ELSE <<>>)
             \o <<K(TOK_RPAR)>>)
    \o DupBodyStart(c)

DupProgram(c) ==
    DupStart(c) \o <<ID("v"), K(TOK_SEMICOLON)>> \o Chill \o <<K(TOK_END)>>
    \o (IF c.where = "main" THEN <<>> ELSE Body(<<>>, Chill))

(* --- write statements: "write" item { "&" item }, each item a string *)
(* --- literal, a scalar expression or an array-typed expression.      *)
MaxItems == 3
WI(toks, array) == [toks |-> toks, array |-> array]
WriteItems ==
    {WI(<<STR("s")>>, FALSE), WI(<<ID("x")>>, FALSE),
     WI(<<ID("x"), K(TOK_LT), NUM(1)>>, FALSE),
     WI(<<ID("a")>>, TRUE),
     WI(<<K(TOK_LPAR), ID("c"), K(TOK_RPAR)>>, TRUE)}
WriteParams == SeqsOf(WriteItems, 1, MaxItems)

WriteToks(items) ==
    <<K(TOK_WRITE)>>
    \o Sep([i \in 1..Len(items) |-> items[i].toks], K(TOK_AMPERSAND))

WriteProgram(items) == Main(WriteToks(items))

(* Where the "write" of WriteProgram stands. *)
WritePos == Len(<<K(TOK_PROGRAM), ID("P"), K(TOK_BEGIN)>> \o StdVars) + 1

(* Where the token before the k-th item stands: "write" or "&". *)
RECURSIVE ItemPos(_, _)
ItemPos(items, k) ==
    IF k = 1 THEN WritePos
    ELSE ItemPos(items, k - 1) + Len(items[k - 1].toks) + 1

(* --- binary operators: l op r for every binary operator, with        *)
(* --- operands of the operator's type that are factors, or terms and  *)
(* --- simple expressions where the grammar takes them without         *)
(* --- parentheses.                                                    *)
IntFactors ==
    {<<NUM(1)>>, <<ID("x")>>, Indexed("a", <<NUM(1)>>),
     <<K(TOK_LPAR), ID("x"), K(TOK_PLUS), NUM(1), K(TOK_RPAR)>>}
IntTerms == IntFactors \cup {<<ID("x"), K(TOK_MUL), NUM(2)>>}
IntSimples == IntTerms \cup {<<ID("x"), K(TOK_PLUS), NUM(1)>>}
BoolFactors ==
    {<<K(TOK_TRUE)>>, <<ID("b")>>, <<K(TOK_NOT), ID("b")>>,
     <<K(TOK_LPAR), ID("x"), K(TOK_LT), NUM(1), K(TOK_RPAR)>>}
BoolTerms == BoolFactors \cup {<<ID("b"), K(TOK_AND), ID("b")>>}

B(op, l, r, int) == [op |-> op, l |-> l, r |-> r, int |-> int]
BinParams ==
    {B(op, l, r, TRUE) : op \in {TOK_MUL, TOK_DIV, TOK_MOD},
                         l \in IntFactors, r \in IntFactors}
    \cup {B(TOK_AND, l, r, FALSE) : l \in BoolFactors, r \in BoolFactors}
    \cup {B(op, l, r, TRUE) : op \in AddOps, l \in IntTerms, r \in IntTerms}
    \cup {B(TOK_OR, l, r, FALSE) : l \in BoolTerms, r \in BoolTerms}
    \cup {B(op, l, r, TRUE) : op \in RelOps, l \in IntSimples,
                              r \in IntSimples}
    \cup {B(op, l, r, FALSE) : op \in {TOK_EQ, TOK_NE}, l \in BoolFactors,
                               r \in BoolFactors}

(* The variable the value of l op r is assigned to. *)
BinTarget(c) ==
    IF c.op \in RelOps \cup LogicOps THEN "b" ELSE "x"

BinProgram(c) == Main(Assign(BinTarget(c), c.l \o <<K(c.op)>> \o c.r))

(* --- read statements: read t or read t[1], t being one of the        *)
(* --- variables of the main body or the subroutine f, a procedure or  *)
(* --- a function of any return type.                                  *)
ReadTargets == {"x", "b", "a", "c", "f"}
ReadParams ==
    {c \in [target : ReadTargets, ret : RetTypes, indexed : BOOLEAN] :
        c.target # "f" => c.ret = TYPE_NONE}

ReadProgram(c) ==
    Program(FuncDef("f", <<>>, c.ret, Body(<<>>, Chill)),
            Body(StdVars,
                 <<K(TOK_READ)>>
                 \o (IF c.indexed THEN Indexed(c.target, <<NUM(1)>>)
                     ELSE <<ID(c.target)>>)))

(* --- bare identifiers as factors: the procedure p, the scalar x or   *)
(* --- the array a, written out, assigned to x, compared with itself   *)
(* --- or passed to the procedure q(integer v).                        *)
FactorUses == {"write", "assign", "compare", "argument"}
FactorParams == [id : {"p", "x", "a"}, use : FactorUses]

FactorStatement(c) ==
    CASE c.use = "write" -> <<K(TOK_WRITE), ID(c.id)>>
      [] c.use = "assign" -> Assign("x", <<ID(c.id)>>)
      [] c.use = "compare" -> Assign("b", <<ID(c.id), K(TOK_EQ), ID(c.id)>>)
      [] c.use = "argument" ->
           <<ID("q"), K(TOK_LPAR), ID(c.id), K(TOK_RPAR)>>

FactorProgram(c) ==
    Program(FuncDef("p", <<>>, TYPE_NONE, Body(<<>>, Chill))
            \o FuncDef("q", <<<<TYPE_INTEGER, "v">>>>, TYPE_NONE,
                       Body(<<>>, Chill)),
            Body(StdVars, FactorStatement(c)))

(* --- order of definition: nf procedures without parameters, the body *)
(* --- of the k-th calling the callee[k]-th, and a main body calling   *)
(* --- the main-th.                                                    *)
OrderParams ==
    UNION {[callee : [1..nf -> 1..nf], main : 1..nf] : nf \in 1..MaxFuncs}

OrderProgram(c) ==
    Program(Concat([k \in 1..Len(c.callee) |->
                       FuncDef(FuncNames[k], <<>>, TYPE_NONE,
                               Body(<<>>, CallToks(FuncNames[c.callee[k]],
                                                   <<>>)))]),
            Body(<<>>, CallToks(FuncNames[c.main], <<>>)))

(* --- what follows the main body's final end: nothing, or the tokens  *)
(* --- of Extras.                                                      *)
Extras ==
    {<<>>, <<K(TOK_END)>>, <<K(TOK_SEMICOLON)>>, <<ID("x")>>, <<NUM(1)>>,
     <<K(TOK_BEGIN), K(TOK_CHILL), K(TOK_END)>>,
     FuncDef("f", <<>>, TYPE_NONE, Body(<<>>, Chill))}
ExtraParams == [nf : 0..1, extra : Extras]

ExtraProgram(c) ==
    Program(IF c.nf = 1 THEN FuncDef("g", <<>>, TYPE_NONE, Body(<<>>, Chill))
            ELSE <<>>,
            Body(StdVars, Chill))
    \o c.extra

(* --- nested ifs and whiles: an if with n elsif arms inside an inner  *)
(* --- and an outer statement, followed by a while, in the main body   *)
(* --- or in a procedure.                                              *)
NestParams ==
    [outer : Nests, inner : Nests, elsifs : 0..MaxElsif,
     where : {"main", "subroutine"}]

NestToks(c) ==
    Nested(c.outer,
           Nested(c.inner,
                  IfToks([arms |-> [i \in 1..(c.elsifs + 1) |-> "chill"],
                          else |-> "assign"])))
    \o <<K(TOK_SEMICOLON)>> \o Nested("while", Chill)

NestProgram(c) ==
    IF c.where = "main" THEN Main(NestToks(c))
    ELSE Program(FuncDef("f", StdParams, TYPE_NONE, Body(<<>>, NestToks(c))),
                 Body(<<>>, Chill))

Programs ==
    {CallProgram(c) : c \in CallParams} \cup {IfProgram(c) : c \in IfParams}
    \cup {IndexProgram(c) : c \in IndexParams}
    \cup {ScopeProgram(c) : c \in ScopeParams}
    \cup {SimpleProgram(c) : c \in SimpleParams}
    \cup {OpProgram(c) : c \in OpParams}
    \cup {ExitProgram(c) : c \in ExitParams}
    \cup {SlotProgram(c) : c \in SlotParams}
    \cup {DupProgram(c) : c \in DupParams}
    \cup {WriteProgram(c) : c \in WriteParams}
    \cup {BinProgram(c) : c \in BinParams}
    \cup {ReadProgram(c) : c \in ReadParams}
    \cup {FactorProgram(c) : c \in FactorParams}
    \cup {OrderProgram(c) : c \in OrderParams}
    \cup {ExtraProgram(c) : c \in ExtraParams}
    \cup {NestProgram(c) : c \in NestParams}

(* ------------------------------------------------------------------ *)
(* The compiler run on a program.                                      *)
(* ------------------------------------------------------------------ *)
(* No symbol table operation has returned. *)
NoReturn == [op |-> "none", id |-> "", found |-> FALSE, prop |-> NoProp]

ScannerIdle ==
    /\ ch = EOF /\ column_number = 0 /\ last_read = "" /\ tokens = <<>>

Init ==
    \E p \in Programs :
        LET s == Started(p)
        IN /\ src = s.src /\ scanned = s.scanned /\ token = s.token
           /\ position = s.position /\ return_type = s.return_type
           /\ tabs = s.tabs /\ table = s.table /\ saved_table = s.saved_table
           /\ curr_offset = s.curr_offset /\ class_name = s.class_name
           /\ cur_sub = s.cur_sub /\ code = s.code
           /\ label_count = s.label_count /\ subs = s.subs /\ err = s.err
           /\ pc = "start" /\ returned = NoReturn /\ ScannerIdle

Next == ProgramHead \/ Funcdef \/ MainBody \/ Finish

Spec == Init /\ [][Next]_vars

Finished == pc \in {"done", "failed"}

(* ------------------------------------------------------------------ *)
(* The scanner on its own: get_token called until end-of-file on a     *)
(* source text, a sequence of characters.                              *)
(* ------------------------------------------------------------------ *)
MaxCommentLen == 5

CommentChars == {"(", "*", ")", "a"}

(* Where the comment of text t ends whose body is read from i on with  *)
(* depth d comments open: the index after its closing, or 0 if it is   *)
(* not closed.  The delimiters are read left to right, two characters  *)
(* at a time.                                                          *)
RECURSIVE CommentEnd(_, _, _)
CommentEnd(t, i, d) ==
    IF i > Len(t) THEN 0
    ELSE IF i < Len(t) /\ t[i] = "(" /\ t[i + 1] = "*"
    THEN CommentEnd(t, i + 2, d + 1)
    ELSE IF i < Len(t) /\ t[i] = "*" /\ t[i + 1] = ")"
    THEN (IF d = 1 THEN i + 2 ELSE CommentEnd(t, i + 2, d - 1))
    ELSE CommentEnd(t, i + 1, d)

(* t is one well-nested comment: it opens with the comment opening,    *)
(* and its closing, every nested comment closed before it, is its end. *)
WellNested(t) ==
    /\ Len(t) >= 4 /\ t[1] = "(" /\ t[2] = "*"
    /\ CommentEnd(t, 3, 1) = Len(t) + 1

Comments ==
    {t \in {<<"(", "*">> \o body \o <<"*", ")">> :
                body \in SeqsOf(CommentChars, 0, MaxCommentLen)} :
        WellNested(t)}

(* The text before and after the comment: the place of the comment is  *)
(* between two tokens, or before the first or after the last one.      *)
TextsBefore == {<<>>, <<"a", " ">>, <<"1", "+">>}
TextsAfter == {<<>>, <<"a">>, <<";", "1", "2">>}

(* --- string literals left open: an opening quote, then a body that   *)
(* --- is the start of a legal string and holds no closing quote.      *)
MaxStringLen == 3

StringChars == {"a", "n", "\\", "\""}

(* body, read from i on, is the start of a legal string literal that   *)
(* end-of-file cuts short: printable characters and the escapes \n,    *)
(* \t, \" and \\, the last of which end-of-file may cut after its      *)
(* backslash, and no closing quote.                                    *)
RECURSIVE OpenStringBody(_, _)
OpenStringBody(body, i) ==
    IF i > Len(body) THEN TRUE
    ELSE IF body[i] = "\"" THEN FALSE
    ELSE IF body[i] = "\\"
    THEN \/ i = Len(body)
         \/ /\ body[i + 1] \in {"n", "t", "\"", "\\"}
            /\ OpenStringBody(body, i + 2)
    ELSE OpenStringBody(body, i + 1)

OpenStrings ==
    {<<"\"">> \o body : body \in
        {b \in SeqsOf(StringChars, 0, MaxStringLen) : OpenStringBody(b, 1)}}

(* What comes before the token a text is about: nothing, a token on    *)
(* the same line, or a token on the line before.                       *)
LinesBefore == {<<>>, <<"a", " ">>, <<"a", "\n">>}

OpenStringTexts == {pre \o t : pre \in LinesBefore, t \in OpenStrings}

(* The line and the column of the i-th character of text t. *)
LineOf(t, i) == 1 + Cardinality({j \in 1..(i - 1) : t[j] = "\n"})
ColOf(t, i) ==
    Cardinality({j \in 1..i : \A k \in j..(i - 1) : t[k] # "\n"})

(* --- comments left open: a comment opening whose closing, read as    *)
(* --- CommentEnd reads it, does not come before end-of-file.          *)
Unclosed(t) ==
    /\ Len(t) >= 2 /\ t[1] = "(" /\ t[2] = "*"
    /\ CommentEnd(t, 3, 1) = 0

UnclosedComments ==
    {t \in {<<"(", "*">> \o body :
                body \in SeqsOf(CommentChars, 0, MaxCommentLen)} :
        Unclosed(t)}

UnclosedCommentTexts ==
    {pre \o t : pre \in LinesBefore, t \in UnclosedComments}

(* The places of the comment openings of text t that are still open at *)
(* its end, outermost first; open are those open before t[i].          *)
RECURSIVE OpenComments(_, _, _)
OpenComments(t, i, open) ==
    IF i > Len(t) THEN open
    ELSE IF i < Len(t) /\ t[i] = "(" /\ t[i + 1] = "*"
    THEN OpenComments(t, i + 2, Append(open, i))
    ELSE IF i < Len(t) /\ t[i] = "*" /\ t[i + 1] = ")" /\ open # <<>>
    THEN OpenComments(t, i + 2, SubSeq(open, 1, Len(open) - 1))
    ELSE OpenComments(t, i + 1, open)

(* --- numbers: short digit strings, and the digit strings around the  *)
(* --- largest int, 2147483647, with and without a leading zero.       *)
MaxDigits == 3

Digits == {"0", "1", "2", "3", "4", "5", "6", "7", "8", "9"}

NumberStrings ==
    SeqsOf({"0", "1", "9"}, 1, MaxDigits)
    \cup {zero \o <<"2", "1", "4", "7", "4", "8", "3", "6", "4">> \o tail :
            zero \in {<<>>, <<"0">>}, tail \in SeqsOf(Digits, 0, 2)}
    \cup {<<"2", "1", "4", "7", "4", "8", "3", "5", "9", "9">>,
          <<"2", "1", "4", "7", "4", "8", "3", "6", "5", "0">>,
          <<"1", "0", "0", "0", "0", "0", "0", "0", "0", "0">>,
          <<"3", "0", "0", "0", "0", "0", "0", "0", "0", "0">>,
          <<"4", "2", "9", "4", "9", "6", "7", "2", "9", "6">>,
          <<"4", "2", "9", "4", "9", "6", "7", "2", "9", "7">>,
          <<"9", "9", "9", "9", "9", "9", "9", "9", "9", "9">>,
          <<"9", "9", "9", "9", "9", "9", "9", "9", "9", "9", "9", "9">>}

NumbersAfter == {<<>>, <<";">>, <<" ", "a">>}

NumberTexts == {ds \o post : ds \in NumberStrings, post \in NumbersAfter}

(* The digits t starts with. *)
RECURSIVE DigitRun(_)
DigitRun(t) ==
    IF t = <<>> \/ t[1] \notin Digits THEN <<>>
    ELSE <<t[1]>> \o DigitRun(Tail(t))

(* The digit d as a number, by its place among the digits. *)
DigitValue(d) == Cardinality({e \in Digits : CharCode(e) < CharCode(d)})

RECURSIVE NoLeadingZeros(_)
NoLeadingZeros(ds) ==
    IF Len(ds) > 1 /\ ds[1] = "0" THEN NoLeadingZeros(Tail(ds)) ELSE ds

(* Digit strings of one length compared as numbers. *)
RECURSIVE DigitsGreater(_, _)
DigitsGreater(ds, es) ==
    /\ ds # <<>>
    /\ \/ DigitValue(ds[1]) > DigitValue(es[1])
       \/ ds[1] = es[1] /\ DigitsGreater(Tail(ds), Tail(es))

LargestInt == <<"2", "1", "4", "7", "4", "8", "3", "6", "4", "7">>

(* The decimal value of ds is more than 2147483647. *)
TooLarge(ds) ==
    \/ Len(NoLeadingZeros(ds)) > Len(LargestInt)
    \/ /\ Len(NoLeadingZeros(ds)) = Len(LargestInt)
       /\ DigitsGreater(NoLeadingZeros(ds), LargestInt)

(* The decimal value of ds, which is not too large. *)
RECURSIVE DecimalValue(_)
DecimalValue(ds) ==
    IF ds = <<>> THEN 0
    ELSE 10 * DecimalValue(SubSeq(ds, 1, Len(ds) - 1))
         + DigitValue(ds[Len(ds)])

(* --- words: every reserved word, and identifiers that sort before,   *)
(* --- between and after the reserved words, the longest ones included. *)
Identifiers ==
    {<<"a">>, <<"a", "n">>, <<"a", "n", "d", "a">>, <<"I", "f">>,
     <<"_", "x">>, <<"b">>, <<"e", "_">>, <<"i", "1">>, <<"q">>, <<"v">>,
     <<"w", "h", "i", "l">>, <<"w", "r", "i", "t">>,
     <<"w", "r", "i", "t", "e", "s">>, <<"x">>, <<"y", "2">>, <<"z">>,
     [i \in 1..MAX_ID_LENGTH |-> "k"], [i \in 1..MAX_ID_LENGTH |-> "z"]}

ReservedWords == {reserved[i].word : i \in 1..NUM_RESERVED_WORDS}

WordsAfter == {<<>>, <<";">>}

WordTexts ==
    {w \o post : w \in Identifiers \cup ReservedWords, post \in WordsAfter}

(* The letters, digits and underscores t starts with. *)
RECURSIVE WordRun(_)
WordRun(t) ==
    IF t = <<>> \/ ~(isalpha(t[1]) \/ isdigit(t[1]) \/ t[1] = "_") THEN <<>>
    ELSE <<t[1]>> \o WordRun(Tail(t))

(* The token kind of the reserved word w. *)
KindOf(w) == reserved[CHOOSE i \in 1..NUM_RESERVED_WORDS : reserved[i].word = w].type

CommentTexts ==
    {pre \o t \o post : pre \in TextsBefore, t \in Comments \cup {<<>>},
                        post \in TextsAfter}

LexTexts ==
    CommentTexts \cup OpenStringTexts \cup UnclosedCommentTexts
    \cup NumberTexts \cup WordTexts

(* The outcomes of the undefined behaviour of process_word. *)
Outcomes == {"less", "equal", "greater", "crash"}

LexState ==
    [text |-> src, nread |-> scanned, ch |-> ch,
     column_number |-> column_number, last_read |-> last_read,
     position |-> position, token |-> token, err |-> err]

(* The parser, the symbol table and the emitter are not in use. *)
ParserIdle ==
    /\ return_type = TYPE_NONE /\ tabs = <<>> /\ table = 0 /\ saved_table = 0
    /\ curr_offset = 0 /\ class_name = "" /\ code = <<>> /\ label_count = 0
    /\ cur_sub = [name |-> "", prop |-> NoProp] /\ subs = <<>>
    /\ returned = NoReturn

InitLex ==
    \E text \in LexTexts :
        /\ src = text /\ scanned = init_scanner(text).nread
        /\ ch = init_scanner(text).ch
        /\ column_number = init_scanner(text).column_number
        /\ last_read = init_scanner(text).last_read
        /\ position = init_scanner(text).position
        /\ token = init_scanner(text).token /\ err = init_scanner(text).err
        /\ tokens = <<>> /\ pc = "scanning" /\ ParserIdle

(* The state after get_token left the scanner in L. *)
LexBecomes(L) ==
    /\ src' = L.text /\ scanned' = L.nread /\ ch' = L.ch
    /\ column_number' = L.column_number /\ last_read' = L.last_read
    /\ position' = L.position /\ token' = L.token /\ err' = L.err
    /\ tokens' = IF LexOk(L) THEN Append(tokens, L.token) ELSE tokens
    /\ pc' = IF ~LexOk(L) THEN "failed"
             ELSE IF L.token.type = TOK_EOF THEN "done" ELSE "scanning"
    /\ UNCHANGED <<return_type, tabs, table, saved_table, curr_offset,
                   class_name, cur_sub, code, label_count, subs, returned>>

GetToken ==
    /\ pc = "scanning"
    /\ \E ub \in Outcomes : LexBecomes(lex_get_token(LexState, ub))

NextLex == GetToken

SpecLex == InitLex /\ [][NextLex]_vars

(* The tokens of a whole text, and whether the scan reached            *)
(* end-of-file without a fatal error: get_token is called on the       *)
(* scanner L, and acc are the tokens it returned before.               *)
RECURSIVE ScanRest(_, _, _)
ScanGot(L, ub, acc) ==
    IF ~LexOk(L) THEN [ok |-> FALSE, tokens |-> acc]
    ELSE IF L.token.type = TOK_EOF
    THEN [ok |-> TRUE, tokens |-> Append(acc, L.token)]
    ELSE ScanRest(L, ub, Append(acc, L.token))

ScanRest(L, ub, acc) == ScanGot(lex_get_token(L, ub), ub, acc)

Scan(text, ub) == ScanRest(init_scanner(text), ub, <<>>)

(* ------------------------------------------------------------------ *)
(* The symbol table on its own: insert_name, find_name,                *)
(* open_subroutine and close_subroutine called in any order the        *)
(* interface allows, open_subroutine from the global scope and         *)
(* close_subroutine from a subroutine's.                               *)
(* ------------------------------------------------------------------ *)
SymNames == {"f", "x", "v"}
SymVariableTypes == {TYPE_INTEGER, TYPE_BOOLEAN + TYPE_ARRAY}
SymCallableTypes == {TYPE_CALLABLE, TYPE_CALLABLE + TYPE_INTEGER}

(* The scanner, the parser and the emitter are not in use. *)
SymOnly ==
    /\ src = <<>> /\ scanned = 0 /\ token = EOFToken /\ position = 0
    /\ return_type = TYPE_NONE /\ class_name = "" /\ code = <<>>
    /\ cur_sub = [name |-> "", prop |-> NoProp] /\ label_count = 0
    /\ subs = <<>> /\ err = NoErr /\ ScannerIdle

InitSym ==
    /\ tabs = init_symbol_table(Fresh(<<>>)).tabs
    /\ table = init_symbol_table(Fresh(<<>>)).table
    /\ saved_table = init_symbol_table(Fresh(<<>>)).saved_table
    /\ curr_offset = init_symbol_table(Fresh(<<>>)).curr_offset
    /\ returned = NoReturn /\ pc = "global" /\ SymOnly

(* The state after a symbol table operation left the table as in s and *)
(* returned r.                                                         *)
SymBecomes(s, r, next_pc) ==
    /\ tabs' = s.tabs /\ table' = s.table /\ saved_table' = s.saved_table
    /\ curr_offset' = s.curr_offset /\ returned' = r /\ pc' = next_pc
    /\ UNCHANGED <<src, scanned, token, position, return_type, class_name,
                   cur_sub, code, label_count, subs, err, ch, column_number,
                   last_read, tokens>>

Returned(op, id, found, prop) ==
    [op |-> op, id |-> id, found |-> found, prop |-> prop]

SymInserted(o, id) ==
    SymBecomes(o.s, Returned("insert_name", id, o.ok, NoProp), pc)

SymInsert ==
    /\ pc \in {"global", "local"}
    /\ \E id \in SymNames, type \in SymVariableTypes :
           SymInserted(insert_name(State, id,
               make_idprop(type, get_variables_width(State), 0, <<>>)), id)

SymOpened(o, id) ==
    SymBecomes(o.s, Returned("open_subroutine", id, o.ok, NoProp),
               IF o.ok THEN "local" ELSE "global")

SymOpen ==
    /\ pc = "global"
    /\ \E id \in SymNames, type \in SymCallableTypes :
           SymOpened(open_subroutine(State, id,
               make_idprop(type, get_variables_width(State), 0, <<>>)), id)

SymClose ==
    /\ pc = "local"
    /\ SymBecomes(close_subroutine(State), NoReturn, "global")

SymFound(f, id) ==
    SymBecomes(State, Returned("find_name", id, f.found, f.prop), pc)

SymFind ==
    /\ pc \in {"global", "local"}
    /\ \E id \in SymNames : SymFound(find_name(State, id), id)

NextSym == SymInsert \/ SymOpen \/ SymClose \/ SymFind

SpecSym == InitSym /\ [][NextSym]_vars


(* ------------------------------------------------------------------ *)
(* The hash table on its own: ht_insert and ht_search called on one    *)
(* table made by ht_init, with the symbol table's hash function and    *)
(* load factor.  The keys come roughly in the order of HtKeys: with n  *)
(* entries in the table an insert is of one of the first n + MaxAhead  *)
(* keys.  A key is inserted with its own value first, and with any     *)
(* value after that.                                                   *)
(* ------------------------------------------------------------------ *)
MaxKeys == 11
MaxAhead == 3
HtKeys == <<"a", "b", "c", "f", "g", "h", "i", "p", "q", "v", "w", "x",
            "y", "z", "a2", "b2", "c2", "x2">>
HtValues == {make_idprop(TYPE_INTEGER, 1, 0, <<>>),
             make_idprop(TYPE_BOOLEAN, 2, 0, <<>>)}

(* The table the operations work on. *)
Ht == tabs[1]

InitHt ==
    /\ tabs = <<ht_init>> /\ table = 1 /\ saved_table = 0 /\ curr_offset = 1
    /\ returned = NoReturn /\ pc = "table" /\ SymOnly

(* The state after a hash table operation left the table as ht and     *)
(* returned r.                                                         *)
HtBecomes(ht, r) ==
    /\ tabs' = <<ht>> /\ returned' = r
    /\ UNCHANGED <<src, scanned, token, position, return_type, table,
                   saved_table, curr_offset, class_name, cur_sub, code,
                   label_count, subs, err, ch, column_number, last_read,
                   tokens, pc>>

HtInserted(r, key, value) ==
    HtBecomes(r.ht, [op |-> "ht_insert", key |-> key, rc |-> r.rc,
                     value |-> value])

(* The value the n-th key is inserted with first. *)
OwnValue(n) ==
    IF n % 2 = 1 THEN make_idprop(TYPE_INTEGER, 1, 0, <<>>)
    ELSE make_idprop(TYPE_BOOLEAN, 2, 0, <<>>)

HtInsert ==
    /\ pc = "table"
    /\ \E n \in 1..MaxKeys, value \in HtValues :
           /\ n <= Ht.num_entries + MaxAhead
           /\ ht_search(Ht, HtKeys[n]).found \/ value = OwnValue(n)
           /\ HtInserted(ht_insert(Ht, HtKeys[n], value), HtKeys[n], value)

HtSearched(r, key) ==
    HtBecomes(Ht, [op |-> "ht_search", key |-> key,
                   rc |-> IF r.found THEN "TRUE" ELSE "FALSE",
                   value |-> r.value])

HtSearch ==
    /\ pc = "table"
    /\ \E n \in 1..MaxKeys : HtSearched(ht_search(Ht, HtKeys[n]), HtKeys[n])

NextHt == HtInsert \/ HtSearch

SpecHt == InitHt /\ [][NextHt]_vars
(* The entries of a hash table, whatever bucket they are in. *)
Entries(ht) ==
    {ht.buckets[k][j] : <<k, j>> \in
        {<<k, j>> \in (1..ht.size) \X (1..ht.num_entries) :
            j <= Len(ht.buckets[k])}}

Holds(ht, id) == \E e \in Entries(ht) : e.key = id

(* ------------------------------------------------------------------ *)
(* What a finished run shows.                                          *)
(* ------------------------------------------------------------------ *)
Accepted == pc = "done"
Rejected(kind) == pc = "failed" /\ err.kind = kind

(* The instructions of the main body, and of the first subroutine. *)
MainCode == subs[Len(subs)].code
FirstCode == subs[1].code

(* How many instructions of cd have the opcode op. *)
NumOf(cd, op) == Cardinality({i \in 1..Len(cd) : cd[i].op = op})

(* The instructions of the integer expression e over the variables of  *)
(* Main, as the compiler emits them for the assignment x <- e.         *)
CodeOfInt(e) ==
    With([cd \in {Compile(Main(Assign("x", e))).subs[1].code} |->
        SubSeq(cd, 1, Len(cd) - 2)])

(* ------------------------------------------------------------------ *)
(* Comments (get_token, skip_comment).                                 *)
(* ------------------------------------------------------------------ *)
(* C1: a well-nested comment put between two tokens of a source text   *)
(* does not change the tokens, kinds and payloads, that successive     *)
(* get_token calls return, whatever '(' and '*' and nested comments    *)
(* its body holds.                                                     *)
C1_CommentsLeaveTokens ==
    \A pre \in TextsBefore, post \in TextsAfter :
        (/\ Finished
         /\ Len(src) >= Len(pre) + Len(post)
         /\ SubSeq(src, 1, Len(pre)) = pre
         /\ SubSeq(src, Len(src) - Len(post) + 1, Len(src)) = post
         /\ WellNested(SubSeq(src, Len(pre) + 1, Len(src) - Len(post))))
        => \A ub \in Outcomes :
               [ok |-> Accepted, tokens |-> tokens] = Scan(pre \o post, ub)

(* ------------------------------------------------------------------ *)
(* Calls (parse_arglist).                                              *)
(* ------------------------------------------------------------------ *)
(* The arguments agree in type with the parameters they stand for. *)
ArgsAgree(c) ==
    \A i \in 1..Len(c.atypes) :
        i <= Len(c.ptypes) => c.atypes[i] = c.ptypes[i]

(* C2: a call of a callee with n parameters is accepted only when it   *)
(* has exactly n arguments of the parameters' types; with more than n  *)
(* arguments it is a fatal arity error, and with fewer than n, the     *)
(* empty list () included, it is the fatal error too few arguments.    *)
C2_CallArityChecked ==
    \A c \in CallParams :
        (Finished /\ src = CallProgram(c)) =>
            /\ Accepted => (Len(c.atypes) = Len(c.ptypes) /\ ArgsAgree(c))
            /\ (Len(c.atypes) > Len(c.ptypes) /\ ArgsAgree(c)) =>
                   \/ Rejected("ERR_TOO_MANY_ARGUMENTS")
                   \/ Rejected("ERR_TAKES_NO_ARGUMENTS")
            /\ (Len(c.atypes) < Len(c.ptypes) /\ ArgsAgree(c)) =>
                   Rejected("ERR_TOO_FEW_ARGUMENTS")

(* ------------------------------------------------------------------ *)
(* If statements (parse_if).                                           *)
(* ------------------------------------------------------------------ *)
(* In cd, the branch at i goes forward to a label placed once, right   *)
(* after a GOTO, with no other branch in between.                      *)
BranchesToNextAlternative(cd, i) ==
    \E j \in (i + 1)..Len(cd) :
        /\ cd[j].op = "LABEL" /\ cd[j].arg = cd[i].arg
        /\ cd[j - 1].op = "GOTO"
        /\ \A k \in (i + 1)..(j - 1) : cd[k].op # "IFEQ"
        /\ \A k \in 1..Len(cd) :
               (cd[k].op = "LABEL" /\ cd[k].arg = cd[i].arg) => k = j

(* C3: the IFEQ after each arm's guard targets a label placed after    *)
(* that arm's statements and its GOTO L_end, at the start of the next  *)
(* alternative; a GOTO L_end follows every arm, and L_end is placed    *)
(* after the last alternative.                                         *)
C3_IfArmsChained ==
    \A c \in IfParams :
        (Accepted /\ src = IfProgram(c)) =>
            /\ MainCode[Len(MainCode) - 1].op = "LABEL"
            /\ NumOf(MainCode, "GOTO") = Len(c.arms)
            /\ NumOf(MainCode, "IFEQ") = Len(c.arms)
            /\ \A i \in 1..Len(MainCode) :
                   /\ MainCode[i].op = "GOTO" =>
                          MainCode[i].arg = MainCode[Len(MainCode) - 1].arg
                   /\ MainCode[i].op = "IFEQ" =>
                          BranchesToNextAlternative(MainCode, i)

(* ------------------------------------------------------------------ *)
(* Indexed accesses (parse_index and its three callers).               *)
(* ------------------------------------------------------------------ *)
(* cd starts with the instructions of pre. *)
StartsWith(cd, pre) ==
    Len(pre) <= Len(cd) /\ SubSeq(cd, 1, Len(pre)) = pre

(* C4: for every indexed access a[e], as an assignment target, a read  *)
(* target or a factor, ALOAD of a's slot is emitted before the         *)
(* instructions of e, whatever token e starts with; an indexed         *)
(* assignment is ALOAD, e, the right-hand side, IASTORE.               *)
C4_ArrayLoadedBeforeIndex ==
    \A c \in IndexParams :
        (Finished /\ src = IndexProgram(c)) =>
            /\ Accepted
            /\ StartsWith(MainCode, <<Ins("ALOAD", 3, "")>> \o CodeOfInt(c.e))
            /\ c.use = "assign" =>
                   MainCode = <<Ins("ALOAD", 3, "")>> \o CodeOfInt(c.e)
                              \o CodeOfInt(IndexRhs)
                              \o <<Ins("IASTORE", 0, ""), Ins("RETURN", 0, "")>>

(* ------------------------------------------------------------------ *)
(* Slot offsets (insert_name, open_subroutine, close_subroutine).      *)
(* ------------------------------------------------------------------ *)
(* C5: in every scope, the main scope after any number of funcdefs     *)
(* included, the k-th variable inserted gets the offset k.             *)
C5_OffsetsCountFromOne ==
    \A c \in ScopeParams :
        (Accepted /\ src = ScopeProgram(c)) =>
            /\ \A k \in 1..c.nm :
                   /\ find_name(State, LocalNames[k]).found
                   /\ find_name(State, LocalNames[k]).prop.offset = k
            /\ \A i \in 1..c.nf : subs[i].width = c.np + c.nv + 1

(* ------------------------------------------------------------------ *)
(* Simple expressions (parse_simple).                                  *)
(* ------------------------------------------------------------------ *)
(* C6: parse_simple accepts [ "-" ] term { addop term }: the addop     *)
(* terms that follow are consumed whether or not there was a leading   *)
(* "-".                                                                *)
C6_SimpleAccepted ==
    \A c \in SimpleParams :
        (Finished /\ src = SimpleProgram(c)) =>
            /\ Accepted
            /\ NumOf(MainCode, "INEG") = (IF c.neg THEN 1 ELSE 0)
            /\ NumOf(MainCode, "IADD") + NumOf(MainCode, "ISUB") = Len(c.ops)

(* ------------------------------------------------------------------ *)
(* Operators on arrays (parse_expr, parse_simple, parse_term,          *)
(* parse_factor).                                                      *)
(* ------------------------------------------------------------------ *)
(* C7: a relational, arithmetic or logical operator, or unary minus,   *)
(* on an array operand in either position is the fatal error           *)
(* ERR_ILLEGAL_ARRAY_OPERATION naming the operator.                    *)
C7_ArrayOperandRejected ==
    \A c \in OpParams :
        (Finished /\ src = OpProgram(c) /\ (c.larr \/ c.rarr)) =>
            /\ Rejected("ERR_ILLEGAL_ARRAY_OPERATION")
            /\ err.arg = OpName(c)

(* ------------------------------------------------------------------ *)
(* Name lookup (find_name).                                            *)
(* ------------------------------------------------------------------ *)
(* C8: while a subroutine scope is open, find_name(n) succeeds iff n   *)
(* is in the active scope or n is in the global scope with a callable  *)
(* type; a variable of the global scope is never returned, and a hit   *)
(* in the active scope takes precedence over the global scope.         *)
C8_FindNameScoped ==
    (pc = "local" /\ returned.op = "find_name") =>
        /\ returned.found <=>
               \/ Holds(tabs[table], returned.id)
               \/ \E e \in Entries(tabs[saved_table]) :
                      e.key = returned.id /\ IS_CALLABLE_TYPE(e.value.type)
        /\ Holds(tabs[table], returned.id) =>
               [key |-> returned.id, value |-> returned.prop]
                   \in Entries(tabs[table])
        /\ (returned.found /\ ~Holds(tabs[table], returned.id)) =>
               /\ IS_CALLABLE_TYPE(returned.prop.type)
               /\ [key |-> returned.id, value |-> returned.prop]
                      \in Entries(tabs[saved_table])

(* A name that is a variable of the global scope and another variable  *)
(* of the open subroutine's scope was looked up, and a name that is    *)
(* only a variable of the global scope was looked up and not found.    *)
C8_Witness ==
    /\ pc = "local" /\ returned.op = "find_name"
    /\ \E e \in Entries(tabs[saved_table]) :
           /\ e.key = returned.id /\ ~IS_CALLABLE_TYPE(e.value.type)
           /\ ~Holds(tabs[table], returned.id)
           /\ ~returned.found
    /\ \E e \in Entries(tabs[saved_table]), d \in Entries(tabs[table]) :
           /\ e.key = d.key /\ e.value # d.value

(* ------------------------------------------------------------------ *)
(* Exit statements (parse_exit).                                       *)
(* ------------------------------------------------------------------ *)
(* The instructions of the body the exit statement of c is in. *)
ExitCode(c) == IF c.where = "main" THEN MainCode ELSE FirstCode

(* The RETURN instructions of that body when its exit emitted one:     *)
(* parse_program adds a RETURN of its own after the main body.         *)
ExitReturns(c) == IF c.where = "main" THEN 2 ELSE 1

(* C9: where there is no return type, in every procedure and in the    *)
(* main body, exit followed by an expression is the fatal error that   *)
(* an exit expression is not allowed for a procedure, and exit alone   *)
(* emits RETURN.                                                       *)
C9_ExitWithoutReturnType ==
    \A c \in ExitParams :
        (Finished /\ src = ExitProgram(c) /\ c.ret = TYPE_NONE) =>
            IF c.e.toks # <<>>
            THEN Rejected("ERR_EXIT_EXPRESSION_NOT_ALLOWED_FOR_PROCEDURE")
            ELSE Accepted /\ NumOf(ExitCode(c), "RETURN") = ExitReturns(c)

(* C10: in a function, exit without an expression is fatal; exit e is  *)
(* accepted only when the type of e is the return type (the function's *)
(* type without the callable flag), and is otherwise the fatal error   *)
(* incompatible types for the 'exit' statement, with the return type   *)
(* expected and the type of e found; the return instruction is ARETURN *)
(* for an array return type and IRETURN otherwise.                     *)
C10_ExitInFunction ==
    \A c \in ExitParams :
        (Finished /\ src = ExitProgram(c) /\ c.ret # TYPE_NONE) =>
            IF c.e.toks = <<>>
            THEN Rejected("ERR_MISSING_EXIT_EXPRESSION_FOR_FUNCTION")
            ELSE IF c.e.type = c.ret
            THEN /\ Accepted
                 /\ NumOf(FirstCode, "ARETURN")
                        = (IF IS_ARRAY_TYPE(c.ret) THEN 1 ELSE 0)
                 /\ NumOf(FirstCode, "IRETURN")
                        = (IF IS_ARRAY_TYPE(c.ret) THEN 0 ELSE 1)
            ELSE /\ Rejected("incompatible types")
                 /\ err.arg = "for 'exit' statement"
                 /\ err.expected = c.ret
                 /\ err.found = c.e.type

(* An array function whose exit e was accepted and compiled to ARETURN. *)
C10_Witness ==
    \E c \in ExitParams :
        /\ Accepted /\ src = ExitProgram(c)
        /\ c.ret = TYPE_INTEGER + TYPE_ARRAY /\ c.e.type = c.ret
        /\ c.nest = "while"
        /\ NumOf(FirstCode, "ARETURN") = 1


(* ------------------------------------------------------------------ *)
(* Strings left open (process_string).                                 *)
(* ------------------------------------------------------------------ *)
(* C11: end-of-file inside a string literal, right after the opening   *)
(* quote or after a backslash included, is the fatal error 'string not *)
(* closed' reported at the line and column of the opening quote.       *)
C11_OpenStringReported ==
    \A pre \in LinesBefore :
        (/\ Finished
         /\ Len(src) > Len(pre)
         /\ SubSeq(src, 1, Len(pre)) = pre
         /\ SubSeq(src, Len(pre) + 1, Len(src)) \in OpenStrings)
        => /\ Rejected("string not closed")
           /\ err.line = LineOf(src, Len(pre) + 1)
           /\ err.col = ColOf(src, Len(pre) + 1)

(* ------------------------------------------------------------------ *)
(* Comments left open (skip_comment).                                  *)
(* ------------------------------------------------------------------ *)
(* C12: end-of-file while a comment is open, at any depth and right    *)
(* after the opening included, is the fatal error 'comment not closed' *)
(* reported at the line and column of the '(' of a comment that is     *)
(* open at the end; such a source is never accepted.                   *)
C12_OpenCommentReported ==
    \A pre \in LinesBefore :
        (/\ Finished
         /\ Len(src) >= Len(pre) + 2
         /\ SubSeq(src, 1, Len(pre)) = pre
         /\ Unclosed(SubSeq(src, Len(pre) + 1, Len(src))))
        => /\ Rejected("comment not closed")
           /\ \E k \in DOMAIN OpenComments(src, 1, <<>>) :
                  /\ err.line = LineOf(src, OpenComments(src, 1, <<>>)[k])
                  /\ err.col = ColOf(src, OpenComments(src, 1, <<>>)[k])

(* ------------------------------------------------------------------ *)
(* Numbers (process_number).                                           *)
(* ------------------------------------------------------------------ *)
(* The first token of the source is the number ds. *)
FirstIsNumber(ds) ==
    /\ tokens # <<>>
    /\ tokens[1] = Tok(TOK_NUM, <<>>, DecimalValue(ds))

(* C13: for every non-empty digit string, process_number returns a NUM *)
(* token with the decimal value of the string when that value is at    *)
(* most 2147483647 and is fatal with 'number too large' exactly when   *)
(* it is more; the accumulator never exceeds 2147483647: after k       *)
(* digits it is the value of the first k digits, which is what         *)
(* process_number returns for them.                                    *)
C13_NumberValue ==
    (Finished /\ DigitRun(src) # <<>>
        /\ SubSeq(src, Len(DigitRun(src)) + 1, Len(src)) \in NumbersAfter) =>
        /\ TooLarge(DigitRun(src)) <=> Rejected("number too large")
        /\ TooLarge(DigitRun(src)) => tokens = <<>>
        /\ ~TooLarge(DigitRun(src)) =>
               /\ Accepted /\ FirstIsNumber(DigitRun(src))
               /\ \A k \in 1..Len(DigitRun(src)) : \A ub \in Outcomes :
                      /\ Scan(SubSeq(src, 1, k), ub).ok
                      /\ Scan(SubSeq(src, 1, k), ub).tokens[1].value
                             = DecimalValue(SubSeq(src, 1, k))
                      /\ DecimalValue(SubSeq(src, 1, k)) <= INT_MAX

(* The largest int, 2147483647, was scanned as a number.               *)
C13_Witness ==
    /\ Finished /\ DigitRun(src) = LargestInt \o <<>>
    /\ Accepted /\ tokens[1].value = INT_MAX

(* ------------------------------------------------------------------ *)
(* Words (process_word).                                               *)
(* ------------------------------------------------------------------ *)
(* The source starts with a word of at most MAX_ID_LENGTH characters,  *)
(* and what follows the word is one of WordsAfter.                     *)
StartsWithWord ==
    /\ src # <<>> /\ (isalpha(src[1]) \/ src[1] = "_")
    /\ Len(WordRun(src)) <= MAX_ID_LENGTH
    /\ SubSeq(src, Len(WordRun(src)) + 1, Len(src)) \in WordsAfter

(* C14: for every word [A-Za-z_][A-Za-z0-9_]* of at most MAX_ID_LENGTH *)
(* characters, process_word returns the keyword kind when the word is  *)
(* one of the 23 reserved words and an ID token with the word as its   *)
(* lexeme otherwise, wherever the word sorts among the reserved words. *)
C14_WordKind ==
    (Finished /\ StartsWithWord) =>
        /\ Accepted
        /\ tokens[1] = IF WordRun(src) \in ReservedWords
                       THEN Tok(KindOf(WordRun(src)), <<>>, 0)
                       ELSE Tok(TOK_ID, WordRun(src), 0)

(* ------------------------------------------------------------------ *)
(* Slots of parameters and variables (parse_funcdef, parse_vardef).    *)
(* ------------------------------------------------------------------ *)
(* The slots the instructions of cd store to (ISTORE) or load an array *)
(* from (ALOAD), in the order of the instructions.                     *)
RECURSIVE SlotsUsed(_)
SlotsUsed(cd) ==
    IF cd = <<>> THEN <<>>
    ELSE (IF cd[1].op \in {"ISTORE", "ALOAD"} THEN <<cd[1].arg>> ELSE <<>>)
         \o SlotsUsed(Tail(cd))

(* The parameters and the variables of the funcdef of SlotProgram(c). *)
NumSlots(c) == Len(c.ptypes) + Len(c.vtypes) * (IF c.twice THEN 2 ELSE 1)

(* The read statements of the source text p; SlotProgram(c) has one    *)
(* for each parameter and variable.                                    *)
NumReads(p) == Cardinality({i \in 1..Len(p) : p[i].type = TOK_READ})

(* C15: for every funcdef with n parameters and m body variables the   *)
(* parameters have the slots 1..n in declared order, the variables of  *)
(* the body's vardefs the slots n+1..n+m in declaration order, and the *)
(* locals width passed when the subroutine is closed is n+m+1.         *)
C15_SlotsInOrder ==
    Finished =>
        With([reads \in {NumReads(src)} |->
            \A c \in SlotParams :
                (NumSlots(c) = reads /\ src = SlotProgram(c)) =>
                    /\ Accepted
                    /\ SlotsUsed(subs[Len(subs) - 1].code)
                           = [k \in 1..NumSlots(c) |-> k]
                    /\ subs[Len(subs) - 1].width = NumSlots(c) + 1])

(* A funcdef with parameters and with vardefs of two names, after      *)
(* another funcdef, was compiled.                                      *)
C15_Witness ==
    \E c \in SlotParams :
        /\ Accepted
        /\ c.after /\ c.twice /\ Len(c.ptypes) = MaxParams
        /\ Len(c.vtypes) = MaxLocals
        /\ src = SlotProgram(c)
        /\ subs[2].width = MaxParams + 2 * MaxLocals + 1

(* ------------------------------------------------------------------ *)
(* Opening and closing a subroutine scope (open_subroutine,            *)
(* close_subroutine).                                                  *)
(* ------------------------------------------------------------------ *)
(* The step is a successful open_subroutine: the global scope gets the *)
(* subroutine's callable entry and nothing else, and one scope is open. *)
OpenStep ==
    (pc = "global" /\ pc' = "local") =>
        /\ Len(tabs') = 2 /\ table' = 2 /\ saved_table' = 1
        /\ Entries(tabs'[2]) = {}
        /\ ~Holds(tabs[1], returned'.id)
        /\ \E e \in Entries(tabs'[1]) :
               /\ e.key = returned'.id /\ IS_CALLABLE_TYPE(e.value.type)
               /\ Entries(tabs'[1]) = Entries(tabs[1]) \cup {e}

(* The step is an insert_name or a find_name in the open scope: the    *)
(* global scope is left alone, and one scope is open.                  *)
LocalStep ==
    (pc = "local" /\ pc' = "local") =>
        /\ Len(tabs') = 2 /\ table' = 2 /\ saved_table' = 1
        /\ tabs'[1] = tabs[1]

(* The step is close_subroutine: the global scope is active again with *)
(* the entries it had, no scope is open, and a lookup finds what the   *)
(* global scope holds and nothing else.                                *)
CloseStep ==
    (pc = "local" /\ pc' = "global") =>
        /\ Len(tabs') = 1 /\ table' = 1
        /\ tabs'[1] = tabs[1]
        /\ \A id \in SymNames :
               /\ find_name(State, id)'.found <=> Holds(tabs[1], id)
               /\ find_name(State, id)'.found =>
                      [key |-> id, value |-> find_name(State, id)'.prop]
                          \in Entries(tabs[1])
        /\ \A e \in Entries(tabs[2]) :
               ~Holds(tabs[1], e.key) => ~find_name(State, e.key)'.found

(* C16: after a successful open_subroutine, zero or more insert_name   *)
(* calls and close_subroutine, the active scope is the global scope    *)
(* again, it holds exactly the entries it had before the open and the  *)
(* subroutine's callable entry, no name inserted into the subroutine   *)
(* scope is findable any more, and no subroutine scope is open; there  *)
(* is never more than one open.                                        *)
C16_CloseRestoresGlobal ==
    [][OpenStep /\ LocalStep /\ CloseStep /\ Len(tabs') <= 2]_vars

(* A subroutine was closed that was opened in a global scope with one  *)
(* variable, and two variables were inserted into its scope.           *)
C16_Witness ==
    /\ pc = "global" /\ returned = NoReturn /\ saved_table = 1
    /\ curr_offset = 3
    /\ Cardinality(Entries(tabs[1])) = 2
    /\ \E e \in Entries(tabs[1]) : IS_CALLABLE_TYPE(e.value.type)

(* ------------------------------------------------------------------ *)
(* Duplicates (insert_name).                                           *)
(* ------------------------------------------------------------------ *)
(* C17: insert_name returns duplicate exactly when the name already    *)
(* exists in the scope it inserts into, the open subroutine's scope or *)
(* the global scope when no subroutine is open, and succeeds in every  *)
(* other case; on duplicate neither the entries of the scope nor       *)
(* curr_offset change.                                                 *)
C17_DuplicateExactly ==
    [][returned'.op = "insert_name" =>
          /\ ~returned'.found <=> Holds(tabs[table], returned'.id)
          /\ ~returned'.found =>
                 /\ Entries(tabs'[table]) = Entries(tabs[table])
                 /\ curr_offset' = curr_offset]_vars

(* ------------------------------------------------------------------ *)
(* Redeclarations (parse_vardef).                                      *)
(* ------------------------------------------------------------------ *)
(* C18: a vardef that declares a name again in the same scope, as in   *)
(* integer x, x; is fatal with 'multiple definition of' the name at    *)
(* the position of the redeclared identifier; the redeclaration adds   *)
(* no entry to the scope and takes no slot.                            *)
C18_RedeclarationRejected ==
    \A c \in DupParams :
        (Finished /\ src = DupProgram(c)) =>
            /\ Rejected("ERR_MULTIPLE_DEFINITION")
            /\ err.arg = "v"
            /\ err.pos = Len(DupStart(c)) + 1
            /\ src[err.pos] = ID("v")
            /\ table = (IF c.where = "main" THEN 1 ELSE 2)
            /\ Cardinality(Entries(tabs[table])) = c.nb + 1
            /\ find_name(State, "v").prop.offset
                   = (IF c.form = "parameter" THEN 1 ELSE c.nb + 1)
            /\ curr_offset = c.nb + 2

(* A second v in one vardef was rejected in the body of a subroutine   *)
(* that declares other variables first.                                *)
C18_Witness ==
    \E c \in DupParams :
        /\ Rejected("ERR_MULTIPLE_DEFINITION") /\ src = DupProgram(c)
        /\ c.form = "comma" /\ c.where = "subroutine" /\ c.nb = MaxLocals
        /\ table = 2 /\ curr_offset = MaxLocals + 2

(* ------------------------------------------------------------------ *)
(* Write statements (parse_write).                                     *)
(* ------------------------------------------------------------------ *)
(* The first array-typed item of items, or 0. *)
FirstArray(items) ==
    IF \E k \in 1..Len(items) : items[k].array
    THEN CHOOSE k \in 1..Len(items) :
            items[k].array /\ \A j \in 1..(k - 1) : ~items[j].array
    ELSE 0

(* C19: in a write statement an array-typed item is fatal with         *)
(* '<op> is an illegal array operation': op is 'write', at the         *)
(* position of the write keyword, for the first item, and '&', at the  *)
(* position of the '&' before it, for a later item; string literals    *)
(* and scalar expressions are accepted.                                *)
C19_WriteArrayRejected ==
    \A items \in WriteParams :
        (Finished /\ src = WriteProgram(items)) =>
            IF FirstArray(items) = 0
            THEN /\ Accepted
                 /\ NumOf(MainCode, "PRINT") + NumOf(MainCode, "PRINT_STRING")
                        = Len(items)
            ELSE /\ Rejected("ERR_ILLEGAL_ARRAY_OPERATION")
                 /\ err.arg = (IF FirstArray(items) = 1 THEN "write" ELSE "&")
                 /\ err.pos = ItemPos(items, FirstArray(items))
                 /\ src[err.pos] = (IF FirstArray(items) = 1 THEN K(TOK_WRITE)
                                    ELSE K(TOK_AMPERSAND))

(* A write statement was rejected for an array that is its last item,  *)
(* after a string literal.                                             *)
C19_Witness ==
    \E items \in WriteParams :
        /\ Rejected("ERR_ILLEGAL_ARRAY_OPERATION") /\ src = WriteProgram(items)
        /\ Len(items) = MaxItems /\ FirstArray(items) = MaxItems
        /\ items[1].toks = <<STR("s")>>
        /\ err.arg = "&"

(* ------------------------------------------------------------------ *)
(* Binary operators (parse_expr, parse_simple, parse_term).            *)
(* ------------------------------------------------------------------ *)
(* The instructions the compiler emits for the expression e alone, as  *)
(* the right-hand side of an assignment to x (int) or to b.            *)
CodeOf(e, int) ==
    With([cd \in {Compile(Main(Assign(IF int THEN "x" ELSE "b", e)))
                      .subs[1].code} |->
        SubSeq(cd, 1, Len(cd) - 2)])

Branches ==
    {"GOTO", "IF_ICMPEQ", "IF_ICMPNE", "IF_ICMPGE", "IF_ICMPGT", "IF_ICMPLE",
     "IF_ICMPLT"}

(* cd with its labels numbered from n + 1 on. *)
Relabel(cd, n) ==
    [i \in 1..Len(cd) |->
        IF cd[i].op \in Branches \cup {"LABEL"}
        THEN [cd[i] EXCEPT !.arg = @ + n] ELSE cd[i]]

(* The instructions of the operator op when n labels are in use. *)
OpCode(op, n) ==
    CASE op = TOK_AND -> <<Ins("IAND", 0, "")>>
      [] op = TOK_OR -> <<Ins("IOR", 0, "")>>
      [] op = TOK_PLUS -> <<Ins("IADD", 0, "")>>
      [] op = TOK_MINUS -> <<Ins("ISUB", 0, "")>>
      [] op = TOK_MUL -> <<Ins("IMUL", 0, "")>>
      [] op = TOK_DIV -> <<Ins("IDIV", 0, "")>>
      [] op = TOK_MOD -> <<Ins("IREM", 0, "")>>
      [] op \in RelOps ->
           <<Ins(CASE op = TOK_EQ -> "IF_ICMPEQ" [] op = TOK_NE -> "IF_ICMPNE"
                   [] op = TOK_GE -> "IF_ICMPGE" [] op = TOK_GT -> "IF_ICMPGT"
                   [] op = TOK_LE -> "IF_ICMPLE" [] op = TOK_LT -> "IF_ICMPLT",
                 n + 1, ""),
             Ins("LDC", 0, ""), Ins("GOTO", n + 2, ""),
             Ins("LABEL", n + 1, ""), Ins("LDC", 1, ""),
             Ins("LABEL", n + 2, "")>>

(* code(l), code(r), the operator: r's labels follow l's, the          *)
(* operator's follow r's.                                              *)
Postfix(op, cl, cr) ==
    cl \o Relabel(cr, NumOf(cl, "LABEL"))
    \o OpCode(op, NumOf(cl, "LABEL") + NumOf(cr, "LABEL"))


(* C20: for every binary operator application l op r the emitted code  *)
(* is the code of l, the code of r, then the operator's instructions;  *)
(* for 'and' and 'or' the code of both operands is emitted             *)
(* unconditionally, with no branch between them, and is followed by a  *)
(* single IAND or IOR.                                                 *)
C20_OperandsThenOperator ==
    \A c \in BinParams :
        (Finished /\ src = BinProgram(c)) =>
            /\ Accepted
            /\ MainCode =
                   Postfix(c.op, CodeOf(c.l, c.int), CodeOf(c.r, c.int))
                   \o <<Ins("ISTORE", IF BinTarget(c) = "x" THEN 1 ELSE 2, ""),
                        Ins("RETURN", 0, "")>>
            /\ c.op \in LogicOps =>
                   NumOf(MainCode, "IAND") + NumOf(MainCode, "IOR")
                       = 1 + NumOf(CodeOf(c.l, c.int), "IAND")
                           + NumOf(CodeOf(c.r, c.int), "IAND")

(* The comparison (x < 1) = (x < 1) of two comparisons was compiled:   *)
(* each operand and the operator have two labels of their own.         *)
C20_Witness ==
    \E c \in BinParams :
        /\ Accepted /\ src = BinProgram(c)
        /\ c.op = TOK_EQ /\ ~c.int
        /\ c.l = <<K(TOK_LPAR), ID("x"), K(TOK_LT), NUM(1), K(TOK_RPAR)>>
        /\ c.r = c.l
        /\ NumOf(MainCode, "LABEL") = 6

(* ------------------------------------------------------------------ *)
(* The first error is fatal (main, _abort_compile).                    *)
(* ------------------------------------------------------------------ *)
(* C21: make_code_file and assemble run only after parse_program has   *)
(* returned without an error; once an error is reported no further     *)
(* token is read, no further instruction is emitted, no output is      *)
(* written, and the compiler ends unsuccessfully.                      *)
C21_FirstErrorFatal ==
    [][/\ pc' = "done" => (pc = "parsed" /\ err = NoErr /\ err' = NoErr)
       /\ err' # NoErr => pc' = "failed"
       /\ err # NoErr =>
              /\ pc = "failed" /\ pc' = "failed" /\ err' = err
              /\ scanned' = scanned /\ token' = token
              /\ code' = code /\ subs' = subs]_vars

(* The compiler stopped at an error with instructions emitted and part *)
(* of the source text unread.                                          *)
C21_Witness ==
    /\ pc = "failed" /\ err # NoErr
    /\ scanned < Len(src) /\ code # <<>>

(* ------------------------------------------------------------------ *)
(* The properties given to init_subroutine_codegen (parse_funcdef).    *)
(* ------------------------------------------------------------------ *)
(* The name and the properties of the subroutine of CallProgram(c). *)
CalleeName(c) == IF c.kind = "procedure" THEN "p" ELSE "f"
CalleeType(c) ==
    IF c.kind = "procedure" THEN TYPE_CALLABLE
    ELSE TYPE_CALLABLE + TYPE_INTEGER

(* C22: for every funcdef, with zero or more parameters, the           *)
(* properties passed to init_subroutine_codegen are those of the       *)
(* subroutine itself, its callable type with the return base type, its *)
(* parameter count and its parameter types in declared order: the      *)
(* record open_subroutine stored under the subroutine's name.          *)
C22_SubroutineProperties ==
    (Finished /\ subs # <<>>) =>
        \A c \in CallParams :
            src = CallProgram(c) =>
                /\ subs[1].name = CalleeName(c)
                /\ subs[1].prop = find_name(State, CalleeName(c)).prop
                /\ subs[1].prop.type = CalleeType(c)
                /\ subs[1].prop.nparams = Len(c.ptypes)
                /\ subs[1].prop.params = c.ptypes

(* ------------------------------------------------------------------ *)
(* Read statements (parse_read).                                       *)
(* ------------------------------------------------------------------ *)
(* C23: a read statement whose identifier is a callable, procedure or  *)
(* function, is fatal; a read statement emits ISTORE only to the slot  *)
(* of a scalar variable and IASTORE only for an indexed element of an  *)
(* array variable.                                                     *)
C23_ReadTargetIsVariable ==
    Finished =>
        \A c \in ReadParams :
            src = ReadProgram(c) =>
                /\ c.target = "f" => pc = "failed"
                /\ NumOf(code, "ISTORE") + NumOf(MainCode, "ISTORE") > 0 =>
                       c.target \in {"x", "b"} /\ ~c.indexed
                /\ NumOf(code, "IASTORE") + NumOf(MainCode, "IASTORE") > 0 =>
                       c.target \in {"a", "c"} /\ c.indexed

(* ------------------------------------------------------------------ *)
(* Bare identifiers as factors (parse_factor).                         *)
(* ------------------------------------------------------------------ *)
(* The instructions emitted for the main body, finished or not. *)
MainEmitted == IF Accepted THEN MainCode ELSE code

(* C24: a factor that is a bare identifier resolving to a procedure is *)
(* fatal, so that no expression has a type with the CALLABLE flag, and *)
(* ILOAD and ALOAD are emitted for variables only.                     *)
C24_ProcedureIsNoFactor ==
    Finished =>
        \A c \in FactorParams :
            (c.id = "p" /\ src = FactorProgram(c)) =>
                /\ pc = "failed"
                /\ NumOf(MainEmitted, "ILOAD") = 0
                /\ NumOf(MainEmitted, "ALOAD") = 0
                /\ \A i \in 1..Len(MainEmitted) :
                       MainEmitted[i].op = "PRINT" =>
                           ~IS_CALLABLE_TYPE(MainEmitted[i].arg)

(* ------------------------------------------------------------------ *)
(* Order of definition (parse_funcdef, open_subroutine, parse_name).   *)
(* ------------------------------------------------------------------ *)
(* The funcdefs of c whose body calls a subroutine defined later. *)
ForwardCalls(c) == {k \in 1..Len(c.callee) : c.callee[k] > k}

(* The first of them. *)
FirstForward(c) ==
    CHOOSE k \in ForwardCalls(c) : \A j \in ForwardCalls(c) : k <= j

(* C25: in the body of the k-th funcdef a call resolves exactly when   *)
(* the callee is the k-th subroutine itself or is defined before it; a *)
(* call to a subroutine defined later is fatal, unknown identifier; in *)
(* the main body a call to any defined subroutine resolves.            *)
C25_DefinedBeforeUse ==
    Finished =>
        \A c \in OrderParams :
            src = OrderProgram(c) =>
                IF ForwardCalls(c) = {}
                THEN /\ Accepted
                     /\ Len(subs) = Len(c.callee) + 1
                     /\ \A k \in 1..Len(c.callee) :
                            subs[k].code[1] =
                                Ins("CALL", 0, FuncNames[c.callee[k]])
                     /\ MainCode[1] = Ins("CALL", 0, FuncNames[c.main])
                ELSE /\ Rejected("ERR_UNKNOWN_IDENTIFIER")
                     /\ err.arg = FuncNames[c.callee[FirstForward(c)]]
                     /\ Len(subs) = FirstForward(c) - 1

(* A compilation that ended in success with the first subroutine       *)
(* calling itself, the second calling the first, and the main body     *)
(* calling the second.                                                 *)
C25_Witness ==
    /\ Accepted
    /\ Len(subs) = 3
    /\ \A k \in 1..3 : subs[k].code # <<>>
    /\ subs[1].code[1] = Ins("CALL", 0, FuncNames[1])
    /\ subs[2].code[1] = Ins("CALL", 0, FuncNames[1])
    /\ MainCode[1] = Ins("CALL", 0, FuncNames[2])


(* ------------------------------------------------------------------ *)
(* Size and load of the hash table (ht_init, ht_insert, getsize,       *)
(* rehash).                                                            *)
(* ------------------------------------------------------------------ *)
(* C26: after every ht_insert has returned the size of the table is    *)
(* 2^idx - delta[idx], idx having started at INITIAL_DELTA_INDEX and   *)
(* grown by one with each rehash, and num_entries is at most 0.75      *)
(* times the size.                                                     *)
C26_SizeAndLoad ==
    (pc = "table" /\ returned # NoReturn /\ returned.op = "ht_insert") =>
        /\ Ht.idx >= INITIAL_DELTA_INDEX
        /\ Ht.size = 2 ^ Ht.idx - Delta(Ht.idx)
        /\ Ht.size \in {13, 31, 61, 127}
        /\ Len(Ht.buckets) = Ht.size
        /\ 4 * Ht.num_entries <= 3 * Ht.size

(* An ht_insert that rehashed the table of 13 buckets into one of 31.  *)
C26_Witness ==
    /\ pc = "table" /\ returned # NoReturn /\ returned.op = "ht_insert"
    /\ returned.rc = "EXIT_SUCCESS"
    /\ Ht.idx = INITIAL_DELTA_INDEX + 1 /\ Ht.size = 31
    /\ Ht.num_entries = 10

(* ------------------------------------------------------------------ *)
(* Insertion and search (ht_insert, ht_search, rehash).                *)
(* ------------------------------------------------------------------ *)
(* What ht_search answers for the n-th key. *)
Lookup(ht, n) == ht_search(ht, HtKeys[n])

(* Every entry is in the bucket of its key, no chain holds a key       *)
(* twice, and there are num_entries entries.                           *)
EachKeyOnce(ht) ==
    /\ \A k \in 1..ht.size :
           \A i \in 1..Len(ht.buckets[k]) :
               /\ shift_hash(ht.buckets[k][i].key, ht.size) + 1 = k
               /\ \A j \in 1..(i - 1) :
                      ht.buckets[k][j].key # ht.buckets[k][i].key
    /\ Cardinality(Entries(ht)) = ht.num_entries

(* C30: whatever ht_insert calls came before, rehashes included,       *)
(* ht_search of a key is TRUE with the value of the key's first        *)
(* insertion if the key was inserted, and FALSE if it never was;       *)
(* ht_insert of a key that is present returns                          *)
(* HASH_TABLE_KEY_VALUE_PAIR_EXISTS and changes nothing; a rehash      *)
(* neither loses nor duplicates an entry.  Step by step: the new table *)
(* answers FALSE for every key; an ht_insert of an absent key makes    *)
(* ht_search answer TRUE with the value inserted and changes no other  *)
(* key's answer; an ht_insert of a present key and an ht_search leave  *)
(* the table as it was.                                                *)
C30_SearchFindsFirstInsert ==
    /\ \A n \in 1..MaxKeys : ~Lookup(Ht, n).found
    /\ [][/\ (returned'.op = "ht_insert") =>
                 (IF ht_search(Ht, returned'.key).found
                  THEN /\ returned'.rc = "HASH_TABLE_KEY_VALUE_PAIR_EXISTS"
                       /\ Ht' = Ht
                  ELSE /\ returned'.rc = "EXIT_SUCCESS"
                       /\ ht_search(Ht', returned'.key) =
                              [found |-> TRUE, value |-> returned'.value]
                       /\ \A m \in 1..MaxKeys :
                              HtKeys[m] # returned'.key =>
                                  Lookup(Ht, m)' = Lookup(Ht, m)
                       /\ Ht'.num_entries = Ht.num_entries + 1
                       /\ EachKeyOnce(Ht'))
          /\ (returned'.op = "ht_search") =>
                 (/\ Ht' = Ht
                  /\ returned'.rc =
                         (IF ht_search(Ht, returned'.key).found
                          THEN "TRUE" ELSE "FALSE")
                  /\ ht_search(Ht, returned'.key).found =>
                         returned'.value = ht_search(Ht, returned'.key).value)
         ]_vars

(* After a rehash ht_search has found the first key with the value of *)
(* its first insertion, the last key not being in the table.           *)
C30_Witness ==
    /\ pc = "table" /\ returned # NoReturn /\ returned.op = "ht_search"
    /\ Ht.size = 31 /\ returned.key = HtKeys[1] /\ returned.rc = "TRUE"
    /\ returned.value = make_idprop(TYPE_INTEGER, 1, 0, <<>>)
    /\ ~Lookup(Ht, MaxKeys).found

(* ------------------------------------------------------------------ *)
(* The binary search in process_word.                                  *)
(* ------------------------------------------------------------------ *)
(* The search for the word the source starts with, the read past the   *)
(* end of reserved[], if there is one, having the outcome ub.          *)
WordSearched(ub) ==
    word_search(WordRun(src), 0, NUM_RESERVED_WORDS, ub, "none")

(* C27: in the binary search of process_word every index mid that is   *)
(* probed (reserved[mid]) satisfies 0 <= mid < NUM_RESERVED_WORDS.     *)
C27_MidInRange ==
    (Finished /\ StartsWithWord) =>
        \A ub \in Outcomes : WordSearched(ub).oob = "none"

(* ------------------------------------------------------------------ *)
(* The end of the program (parse_program, main).                       *)
(* ------------------------------------------------------------------ *)
(* C28: the compilation succeeds only if the token after the final end *)
(* of the main body is the end of the file.                            *)
C28_NothingAfterEnd ==
    Accepted =>
        \A c \in ExtraParams :
            src = ExtraProgram(c) =>
                /\ token = EOFToken
                /\ c.extra = <<>>

(* ------------------------------------------------------------------ *)
(* Labels (parse_if, parse_while).                                     *)
(* ------------------------------------------------------------------ *)
(* How many times the label is placed in cd. *)
Placed(cd, label) ==
    Cardinality({i \in 1..Len(cd) : cd[i].op = "LABEL" /\ cd[i].arg = label})

(* C29: in the code of every subroutine each label is placed at most   *)
(* once, and each label an IFEQ or a GOTO targets is placed exactly    *)
(* once, for if statements with any number of elsif arms and for while *)
(* statements, at any nesting.                                         *)
C29_LabelsPlacedOnce ==
    Accepted =>
        \A k \in 1..Len(subs) :
            \A i \in 1..Len(subs[k].code) :
                /\ subs[k].code[i].op = "LABEL" =>
                       Placed(subs[k].code, subs[k].code[i].arg) <= 1
                /\ subs[k].code[i].op \in {"IFEQ", "GOTO"} =>
                       Placed(subs[k].code, subs[k].code[i].arg) = 1
====
